---------------------------- MODULE Spec2Model ----------------------------
(***************************************************************************)
(* A model of the MSF60 time-signal decoder (MSF60decode.c) and of the     *)
(* carrier signal that drives it.                                          *)
(*                                                                         *)
(* The decoder is one interrupt handler, HandleCarrierEvent, run on every  *)
(* edge of the carrier.  It measures intervals on a free-running 32-bit    *)
(* millisecond counter, classifies them (GetWidth), follows the 500/500    *)
(* minute marker, stores the A and B bits of seconds 1..59 in two byte     *)
(* arrays, and validates and decodes the frame at the next minute marker.  *)
(***************************************************************************)
EXTENDS Integers, Sequences, FiniteSets, TLC

(***************************************************************************)
(* Program constants.                                                      *)
(***************************************************************************)
PULSE_MARGIN == 30

CARRIER_ON == 0

CARRIER_OFF == 1

eWidth_100 == 1

eWidth_200 == 2

eWidth_300 == 3

eWidth_500 == 5

eWidth_700 == 7

eWidth_800 == 8

eWidth_900 == 9

eWidth_INVALID == 0

MSF_EVENT_SYNC == 1

MSF_EVENT_SYNC_LOST == 2

MSF_EVENT_DATETIME_UPDATED == 4

\* NULL pointer (no client buffer, no callback)
NULL == "NULL"

(***************************************************************************)
(* uint32_t.  TLC's integers are 32-bit signed, so a uint32_t value is     *)
(* kept as its two 16-bit halves <<hi, lo>>, with the C arithmetic mod     *)
(* 2^32 done on the halves.                                                *)
(***************************************************************************)
Half == 65536

U32(hi, lo) == <<hi, lo>>

\* a small non-negative integer (< 2^16) as a uint32_t
U32Of(n) == <<0, n>>

\* a + n (mod 2^32), n a small non-negative integer
Add32(a, n) ==
    LET lo == a[2] + n
    IN  <<(a[1] + (lo \div Half)) % Half, lo % Half>>

\* a difference that stops at 0 instead of wrapping
Sub32_clampedAtZero(a, b) ==
    IF a[1] < b[1] \/ (a[1] = b[1] /\ a[2] < b[2]) THEN <<0, 0>>
    ELSE LET lo     == a[2] - b[2]
             borrow == IF lo < 0 THEN 1 ELSE 0
         IN  <<a[1] - b[1] - borrow, (lo + Half) % Half>>

\* a - b (mod 2^32)
Sub32(a, b) ==
    LET lo     == a[2] - b[2]
        borrow == IF lo < 0 THEN 1 ELSE 0
    IN  <<(a[1] - b[1] - borrow + 2 * Half) % Half, (lo + Half) % Half>>

\* the value 0x80000000, which converts to INT_MIN
IntMinBits == <<32768, 0>>

(***************************************************************************)
(* abs(width - n) < PULSE_MARGIN, as C computes it: width - n is an        *)
(* unsigned 32-bit difference, converted to int for abs().  The result is  *)
(* the set of truth values the comparison can have: abs(INT_MIN) is        *)
(* undefined, so for width - n = 0x80000000 both are possible.             *)
(***************************************************************************)
AbsLessThanMargin(width, n) ==
    LET d   == Sub32(width, U32Of(n))
        neg == Sub32(U32Of(0), d)
    IN  IF d = IntMinBits THEN {TRUE, FALSE}
        ELSE IF d[1] < 32768 THEN {d[1] = 0 /\ d[2] < PULSE_MARGIN}
        ELSE {neg[1] = 0 /\ neg[2] < PULSE_MARGIN}

\* the if / else-if chain of GetWidth, from its k-th test on
Nominal == <<100, 200, 300, 500, 700, 800, 900>>

eWidthOf == <<eWidth_100, eWidth_200, eWidth_300, eWidth_500,
              eWidth_700, eWidth_800, eWidth_900>>

RECURSIVE GetWidthFrom(_, _)
GetWidthFrom(width, k) ==
    IF k > Len(Nominal) THEN {eWidth_INVALID}
    ELSE LET t == AbsLessThanMargin(width, Nominal[k])
         IN  (IF TRUE \in t THEN {eWidthOf[k]} ELSE {})
             \cup (IF FALSE \in t THEN GetWidthFrom(width, k + 1) ELSE {})

\* GetWidth(width): the set of values the call can return (one value, except
\* where the C is undefined)
GetWidth(width) == GetWidthFrom(width, 1)

(***************************************************************************)
(* The bit arrays: uint8_t[8], bit i kept in byte i>>3 under mask          *)
(* 1 << (i & 7).                                                           *)
(***************************************************************************)
ByteArray == [0..7 -> 0..255]

ZeroBits == [i \in 0..7 |-> 0]

Pow2(k) == CASE k = 0 -> 1 [] k = 1 -> 2 [] k = 2 -> 4 [] k = 3 -> 8
             [] k = 4 -> 16 [] k = 5 -> 32 [] k = 6 -> 64 [] k = 7 -> 128

\* byte & mask # 0, for a one-bit mask
MaskSet(byte, mask) == (byte \div mask) % 2 = 1

getBit(bitarray, bitnum) ==
    LET mask == Pow2(bitnum % 8)
    IN  MaskSet(bitarray[bitnum \div 8], mask)

\* defined for bitnum in 0..63; the caller decides what a write past the
\* array does
\* a setBit that clears with the whole byte: &= mask instead of &= ~mask
setBit_clearingWithMask(bitarray, bitnum, bSet) ==
    LET mask == Pow2(bitnum % 8)
        idx  == bitnum \div 8
        old  == bitarray[idx]
    IN  IF bSet
        THEN [bitarray EXCEPT ![idx] = IF MaskSet(old, mask) THEN old ELSE old + mask]
        ELSE [bitarray EXCEPT ![idx] = IF MaskSet(old, mask) THEN mask ELSE 0]

setBit(bitarray, bitnum, bSet) ==
    LET mask == Pow2(bitnum % 8)
        idx  == bitnum \div 8
        old  == bitarray[idx]
    IN  IF bSet
        THEN [bitarray EXCEPT ![idx] = IF MaskSet(old, mask) THEN old ELSE old + mask]
        ELSE [bitarray EXCEPT ![idx] = IF MaskSet(old, mask) THEN old - mask ELSE old]

BCD == <<1, 2, 4, 8, 10, 20, 40, 80>>

\* the loop of ExtractBCD from position bit, with digit and result so far
RECURSIVE ExtractBCDLoop(_, _, _, _, _)
ExtractBCDLoop(bitarray, msbit, bit, digit, result) ==
    IF bit < msbit THEN result
    ELSE ExtractBCDLoop(bitarray, msbit, bit - 1, digit + 1,
                        IF getBit(bitarray, bit)
                        THEN (result + BCD[digit + 1]) % 256
                        ELSE result)

\* an extraction with plain binary weights 1, 2, 4, ..., 128
ExtractBCD_binaryWeights(bitarray, msbit, lsbit) ==
    LET w(d) == IF lsbit - d >= msbit /\ getBit(bitarray, lsbit - d)
                THEN Pow2(d) ELSE 0
    IN  w(0) + w(1) + w(2) + w(3) + w(4) + w(5) + w(6) + w(7)

ExtractBCD(bitarray, msbit, lsbit) ==
    ExtractBCDLoop(bitarray, msbit, lsbit, 0, 0)

\* a parity check that leaves the parity bit out of the count
CheckOddParity_withoutParityBit(bitarray, from, to, parity) ==
    Cardinality({b \in from..to : getBit(bitarray, b)}) % 2 = 1

CheckOddParity(bitarray, from, to, parity) ==
    LET numset == Cardinality({b \in from..to : getBit(bitarray, b)})
                  + (IF parity THEN 1 ELSE 0)
    IN  numset % 2 = 1

\* ValidateBCD: the checks in the order of the source, the first failing one
\* returns false
ValidateBCD(A, B) ==
    IF getBit(A, 52) THEN FALSE
    ELSE IF \E bitnum \in 53..58 : ~getBit(A, bitnum) THEN FALSE
    ELSE IF getBit(A, 59) THEN FALSE
    ELSE IF ~CheckOddParity(A, 17, 24, getBit(B, 54)) THEN FALSE
    ELSE IF ~CheckOddParity(A, 25, 35, getBit(B, 55)) THEN FALSE
    ELSE IF ~CheckOddParity(A, 36, 38, getBit(B, 56)) THEN FALSE
    ELSE IF ~CheckOddParity(A, 39, 51, getBit(B, 57)) THEN FALSE
    ELSE TRUE


(***************************************************************************)
(* State.                                                                  *)
(*   The decoder's file-scope and function-static variables keep their     *)
(*   source names.  msf_DateTime is the caller-owned buffer of main.c.     *)
(*   armed: InitRadioInterface has registered and enabled the edge         *)
(*   interrupt.  memFault: a setBit wrote past the end of its array.       *)
(*   raised / delivered: the events passed to ClientEventNotify, and those *)
(*   handed on to the listener, during the most recent edge call, in       *)
(*   order.  nDelivered: DATETIME_UPDATED events delivered since start.    *)
(*   decodeRan: DecodeFrame was called in the most recent edge call.       *)
(*   edge: the most recent edge, [level, span, cell] (span: the width      *)
(*   class of the span it ended, cell: that of the offset from cell start, *)
(*   as the handler computed them), or NoEdge.  msSinceLost: the           *)
(*   milliseconds of signal since the resync block last ran.               *)
(*   tx: the transmitter and the channel.  arg, ret: the argument and      *)
(*   result of a function applied on its own.                              *)
(*   wrote: the setBit calls of the most recent edge call, as pairs        *)
(*   <<array, bitnum>>.  heard: the caller-owned buffer as it was at each  *)
(*   listener call of the most recent edge call, one entry for each entry  *)
(*   of delivered.  hist: what an observer of the run has seen, see        *)
(*   Observe.  main: the polling loop of main.c, see MainIdle.  lastInit:  *)
(*   the argument of the most recent MSF_InitDecoder call and the minute   *)
(*   markers that had been sent when it was made.  con: the console of     *)
(*   console.c, see ConIdle.                                               *)
(***************************************************************************)
VARIABLES
    bSyncedFlag, A_bits, B_bits, LocalDateTime, pClientDateTime,
    pfClientEventCallback, ui32ClientEventMask,
    T_LastOnStart, T_LastOffStart, eLastOnWidth, eLastOffWidth, T_CellStart,
    nBitNum, bHalfSync, bResyncNeeded,
    g_msSysTick, msf_DateTime,
    armed, memFault, raised, delivered, nDelivered, decodeRan, edge,
    msSinceLost, tx, arg, ret, wrote, heard, hist, main, lastInit, con

decVars == <<bSyncedFlag, A_bits, B_bits, LocalDateTime,
             T_LastOnStart, T_LastOffStart, eLastOnWidth, eLastOffWidth,
             T_CellStart, nBitNum, bHalfSync, bResyncNeeded, msf_DateTime,
             memFault, raised, delivered, nDelivered, decodeRan, edge,
             wrote, heard>>

apiVars == <<pClientDateTime, pfClientEventCallback, ui32ClientEventMask, armed,
             lastInit>>

vars == <<decVars, apiVars, g_msSysTick, msSinceLost, tx, arg, ret, hist,
          main, con>>

\* sMSFDateTime, zero-initialised
ZeroDateTime ==
    [bHasValidTime |-> FALSE, bDateTimeUpdated |-> FALSE, Year |-> 0,
     Month |-> 0, Day |-> 0, Hour |-> 0, Minute |-> 0, DOW |-> 0, DST |-> 0]

NoEdge == [level |-> -1, span |-> eWidth_INVALID, cell |-> eWidth_INVALID]

\* the loop of main.c polling the flags, with nothing printed yet:
\*   main.pc    "poll" at the if of the loop, "print" inside PrintDateTime
\*   main.seen  the fields PrintDateTime has read, as triples of the field,
\*              its value and the minute markers completed when it was read
MainIdle == [pc |-> "poll", seen |-> {}]

\* the size of the console's transmit buffer (CONSOLE_TX_BUFFER_SIZE, 1024
\* in console.h, scaled down)
TxBufferSize == 3

\* the size of the console's receive buffer (CONSOLE_RX_BUFFER_SIZE, 1024
\* in console.h, scaled down)
RxBufferSize == 3

\* the bytes offered to the console, or arriving at it, in a run
MaxBytes == 10

\* the console after Console_InitUART.  TxBuffer, TxWriteIndex, TxReadIndex
\* as in console.c; uart: the bytes handed to the UART so far; accepted: the
\* bytes the writers stored and reported so far; offered: the bytes offered
\* so far, numbered 1, 2, ... in the order offered; nWriteCount: what the
\* last writer returned.  RxBuffer, RxWriteIndex, RxReadIndex as in
\* console.c; arrived: the characters the UART has received so far, numbered
\* 1, 2, ... in the order received; stored: those the interrupt handler
\* stored; got: those Console_getchar has returned
ConIdle ==
    [TxBuffer |-> [i \in 0..(TxBufferSize - 1) |-> 0],
     TxWriteIndex |-> 0, TxReadIndex |-> 0,
     uart |-> <<>>, accepted |-> <<>>, offered |-> 0, nWriteCount |-> 0,
     RxBuffer |-> [i \in 0..(RxBufferSize - 1) |-> 0],
     RxWriteIndex |-> 0, RxReadIndex |-> 0,
     arrived |-> 0, stored |-> <<>>, got |-> <<>>]

\* MSF_InitDecoder has not been called
NoInit == [pdata |-> "none", at |-> -1]

\* nothing observed yet
NoHist ==
    [cells |-> -1, written |-> {}, atDecode |-> {}, run |-> 0, k0 |-> 0,
     cell |-> {}]

(***************************************************************************)
(* The handler is translated as a function on the record of everything it  *)
(* can change, statement by statement; Commit assigns the result.          *)
(***************************************************************************)
Cur ==
    [bSyncedFlag |-> bSyncedFlag, A_bits |-> A_bits, B_bits |-> B_bits,
     LocalDateTime |-> LocalDateTime, msf_DateTime |-> msf_DateTime,
     T_LastOnStart |-> T_LastOnStart, T_LastOffStart |-> T_LastOffStart,
     eLastOnWidth |-> eLastOnWidth, eLastOffWidth |-> eLastOffWidth,
     T_CellStart |-> T_CellStart, nBitNum |-> nBitNum,
     bHalfSync |-> bHalfSync, bResyncNeeded |-> bResyncNeeded,
     memFault |-> memFault, raised |-> <<>>, delivered |-> <<>>,
     decodeRan |-> FALSE, wrote |-> {}, heard |-> <<>>,
     pClientDateTime |-> pClientDateTime,
     pfClientEventCallback |-> pfClientEventCallback,
     ui32ClientEventMask |-> ui32ClientEventMask]

\* a ClientEventNotify that calls a registered listener whatever the mask
ClientEventNotify_ignoringMask(s, ev) ==
    LET r == [s EXCEPT !.raised = Append(@, ev)]
    IN  IF s.pfClientEventCallback # NULL
        THEN [r EXCEPT !.delivered = Append(@, ev),
                       !.heard = Append(@, s.msf_DateTime)]
        ELSE r

\* ClientEventNotify(event): raised lists the calls, delivered the calls of
\* the listener, heard the caller-owned buffer as each of those calls finds it
ClientEventNotify(s, ev) ==
    LET r == [s EXCEPT !.raised = Append(@, ev)]
    IN  IF /\ s.pfClientEventCallback # NULL
           /\ MaskSet(s.ui32ClientEventMask, ev)
        THEN [r EXCEPT !.delivered = Append(@, ev),
                       !.heard = Append(@, s.msf_DateTime)]
        ELSE r

\* setBit(A_bits, bitnum, bSet) and setBit(B_bits, bitnum, bSet) as the handler
\* calls them: an index past bit 63 is a write outside the 8-byte array
setA(s, bitnum, bSet) ==
    LET t == [s EXCEPT !.wrote = @ \cup {<<"A", bitnum>>}]
    IN  IF bitnum \div 8 > 7 THEN [t EXCEPT !.memFault = TRUE]
        ELSE [t EXCEPT !.A_bits = setBit(@, bitnum, bSet)]

setB(s, bitnum, bSet) ==
    LET t == [s EXCEPT !.wrote = @ \cup {<<"B", bitnum>>}]
    IN  IF bitnum \div 8 > 7 THEN [t EXCEPT !.memFault = TRUE]
        ELSE [t EXCEPT !.B_bits = setBit(@, bitnum, bSet)]

\* the seven ExtractBCD calls of DecodeFrame and the two flags
Extracted(A, B) ==
    [bHasValidTime |-> TRUE, bDateTimeUpdated |-> TRUE,
     Year   |-> ExtractBCD(A, 17, 24),
     Month  |-> ExtractBCD(A, 25, 29),
     Day    |-> ExtractBCD(A, 30, 35),
     DOW    |-> ExtractBCD(A, 36, 38),
     Hour   |-> ExtractBCD(A, 39, 44),
     Minute |-> ExtractBCD(A, 45, 51),
     DST    |-> ExtractBCD(B, 58, 58)]

\* a DecodeFrame that extracts and publishes without validating
DecodeFrame_withoutValidation(s) ==
    LET d   == [s EXCEPT !.decodeRan = TRUE]
        ldt == Extracted(d.A_bits, d.B_bits)
        e   == [d EXCEPT !.LocalDateTime = ldt,
                         !.msf_DateTime =
                             IF d.pClientDateTime # NULL THEN ldt ELSE @]
    IN  ClientEventNotify(e, MSF_EVENT_DATETIME_UPDATED)

\* a DecodeFrame that keeps the date/time it extracts only if the client has
\* registered a buffer
DecodeFrame_needingBuffer(s) ==
    LET d == [s EXCEPT !.decodeRan = TRUE]
    IN  IF ValidateBCD(d.A_bits, d.B_bits)
        THEN LET ldt == Extracted(d.A_bits, d.B_bits)
                 e   == IF d.pClientDateTime # NULL /\ ldt.bHasValidTime
                        THEN [d EXCEPT !.LocalDateTime = ldt,
                                       !.msf_DateTime = ldt]
                        ELSE d
             IN  ClientEventNotify(e, MSF_EVENT_DATETIME_UPDATED)
        ELSE d

\* a DecodeFrame whose copy to the client's buffer leaves the Minute behind
DecodeFrame_copyingAllButMinute(s) ==
    LET d == [s EXCEPT !.decodeRan = TRUE]
    IN  IF ValidateBCD(d.A_bits, d.B_bits)
        THEN LET ldt == Extracted(d.A_bits, d.B_bits)
                 e   == [d EXCEPT !.LocalDateTime = ldt,
                                  !.msf_DateTime =
                                      IF /\ d.pClientDateTime # NULL
                                         /\ ldt.bHasValidTime
                                      THEN [ldt EXCEPT !.Minute = d.msf_DateTime.Minute]
                                      ELSE @]
             IN  ClientEventNotify(e, MSF_EVENT_DATETIME_UPDATED)
        ELSE d

\* DecodeFrame: the state it leaves; its return value is ValidateBCD's
\* a DecodeFrame that notifies the client before it copies the result
DecodeFrame_notifyingBeforeCopy(s) ==
    LET d == [s EXCEPT !.decodeRan = TRUE]
    IN  IF ValidateBCD(d.A_bits, d.B_bits)
        THEN LET ldt == Extracted(d.A_bits, d.B_bits)
                 e   == ClientEventNotify([d EXCEPT !.LocalDateTime = ldt],
                                          MSF_EVENT_DATETIME_UPDATED)
             IN  [e EXCEPT !.msf_DateTime =
                              IF /\ d.pClientDateTime # NULL
                                 /\ ldt.bHasValidTime
                              THEN ldt ELSE @]
        ELSE d

DecodeFrame(s) ==
    LET d == [s EXCEPT !.decodeRan = TRUE]
    IN  IF ValidateBCD(d.A_bits, d.B_bits)
        THEN LET ldt == Extracted(d.A_bits, d.B_bits)
                 e   == [d EXCEPT !.LocalDateTime = ldt,
                                  !.msf_DateTime =
                                      IF /\ d.pClientDateTime # NULL
                                         /\ ldt.bHasValidTime
                                      THEN ldt ELSE @]
             IN  ClientEventNotify(e, MSF_EVENT_DATETIME_UPDATED)
        ELSE d

\* a case eWidth_500 that takes any 500 ms ON span for the end of a SYNC
\* preamble, half-sync or not
OffWidth500_ignoringHalfSync(s) ==
    LET a == ClientEventNotify(s, MSF_EVENT_SYNC)
        b == [a EXCEPT !.bSyncedFlag = TRUE, !.T_CellStart = a.T_LastOffStart]
        c == IF b.nBitNum = 60
             THEN [DecodeFrame(b) EXCEPT !.bResyncNeeded =
                       ~ValidateBCD(b.A_bits, b.B_bits)]
             ELSE b
    IN  [c EXCEPT !.nBitNum = 1]

\* case CARRIER_OFF, case eWidth_500: a 500 ms ON span has ended
\* OffWidth500 trying the decode before it notifies SYNC
OffWidth500_decodingBeforeSync(s) ==
    IF s.bHalfSync = TRUE
    THEN LET b == [s EXCEPT !.bSyncedFlag = TRUE,
                            !.T_CellStart = s.T_LastOffStart]
             c == IF b.nBitNum = 60
                  THEN [DecodeFrame(b) EXCEPT !.bResyncNeeded =
                            ~ValidateBCD(b.A_bits, b.B_bits)]
                  ELSE b
         IN  [ClientEventNotify(c, MSF_EVENT_SYNC) EXCEPT !.nBitNum = 1]
    ELSE [s EXCEPT !.bResyncNeeded = TRUE]

OffWidth500(s) ==
    IF s.bHalfSync = TRUE
    THEN LET a == ClientEventNotify(s, MSF_EVENT_SYNC)
             b == [a EXCEPT !.bSyncedFlag = TRUE,
                            !.T_CellStart = a.T_LastOffStart]
             c == IF b.nBitNum = 60
                  THEN [DecodeFrame(b) EXCEPT !.bResyncNeeded =
                            ~ValidateBCD(b.A_bits, b.B_bits)]
                  ELSE b
         IN  [c EXCEPT !.nBitNum = 1]
    ELSE [s EXCEPT !.bResyncNeeded = TRUE]

\* cases eWidth_900 and eWidth_800 without their test of bSyncedFlag
OffWidth900or800_whileSeeking(s, bA) ==
    [setB(setA(s, s.nBitNum, bA), s.nBitNum, FALSE)
        EXCEPT !.nBitNum = @ + 1, !.T_CellStart = s.T_LastOffStart]

\* case eWidth_900 (bA false) and case eWidth_800 (bA true)
OffWidth900or800(s, bA) ==
    IF ~s.bSyncedFlag THEN s
    ELSE [setB(setA(s, s.nBitNum, bA), s.nBitNum, FALSE)
             EXCEPT !.nBitNum = @ + 1, !.T_CellStart = s.T_LastOffStart]

\* case eWidth_700
OffWidth700(s) ==
    IF ~s.bSyncedFlag THEN s
    ELSE [setB(s, s.nBitNum, TRUE)
             EXCEPT !.nBitNum = @ + 1, !.T_CellStart = s.T_LastOffStart]

\* case eWidth_100, with wCell the class of event_time - T_CellStart
OffWidth100(s, wCell) ==
    IF ~s.bSyncedFlag THEN s
    ELSE IF wCell = eWidth_200
         THEN [setB(setA(s, s.nBitNum, FALSE), s.nBitNum, TRUE)
                  EXCEPT !.nBitNum = @ + 1]
         ELSE [s EXCEPT !.bResyncNeeded = TRUE]

\* case CARRIER_OFF, with w the class of the ON span just ended
CarrierOff(s0, event_time, w, wCell) ==
    LET s1 == [s0 EXCEPT !.T_LastOffStart = event_time, !.eLastOnWidth = w]
        s  == IF s1.bSyncedFlag = FALSE
              THEN [s1 EXCEPT !.T_CellStart = s1.T_LastOffStart] ELSE s1
    IN  CASE w = eWidth_500 -> OffWidth500(s)
          [] w = eWidth_900 -> OffWidth900or800(s, FALSE)
          [] w = eWidth_800 -> OffWidth900or800(s, TRUE)
          [] w = eWidth_700 -> OffWidth700(s)
          [] w = eWidth_100 -> OffWidth100(s, wCell)
          [] OTHER -> [s EXCEPT !.bResyncNeeded = TRUE]

\* case CARRIER_ON, case eWidth_500: the edge is 500 ms from the cell start
OnOffset500(s) ==
    IF s.eLastOffWidth = eWidth_500
    THEN [s EXCEPT !.bHalfSync = TRUE]
    ELSE [s EXCEPT !.bResyncNeeded = TRUE]

\* case eWidth_100
OnOffset100(s) ==
    IF ~s.bSyncedFlag THEN s ELSE setA(s, s.nBitNum, FALSE)

\* case eWidth_200
OnOffset200(s) ==
    IF ~s.bSyncedFlag THEN s
    ELSE setB(setA(s, s.nBitNum, TRUE), s.nBitNum, FALSE)

\* case eWidth_300
OnOffset300(s) ==
    IF ~s.bSyncedFlag THEN s
    ELSE LET b == setB(s, s.nBitNum, FALSE)
         IN  IF s.eLastOffWidth = eWidth_100 THEN setA(b, s.nBitNum, FALSE)
             ELSE IF s.eLastOffWidth = eWidth_300 THEN setA(b, s.nBitNum, TRUE)
             ELSE [b EXCEPT !.bResyncNeeded = TRUE]

\* case CARRIER_ON, with wOff the class of the OFF span just ended and wCell
\* the class of the offset from the cell start
CarrierOn(s0, event_time, wOff, wCell) ==
    LET s == [s0 EXCEPT !.T_LastOnStart = event_time, !.eLastOffWidth = wOff]
    IN  CASE wCell = eWidth_500 -> OnOffset500(s)
          [] wCell = eWidth_100 -> OnOffset100(s)
          [] wCell = eWidth_200 -> OnOffset200(s)
          [] wCell = eWidth_300 -> OnOffset300(s)
          [] OTHER -> [s EXCEPT !.bResyncNeeded = TRUE]

\* a closing block that notifies SYNC_LOST only if the decoder was SYNCED
ResyncBlock_notifyingOnlyIfSynced(s) ==
    IF s.bResyncNeeded
    THEN [(IF s.bSyncedFlag THEN ClientEventNotify(s, MSF_EVENT_SYNC_LOST) ELSE s)
             EXCEPT !.nBitNum = 1, !.bHalfSync = FALSE,
                    !.bSyncedFlag = FALSE, !.bResyncNeeded = FALSE]
    ELSE s

\* the closing if (bResyncNeeded) block
\* a resync block that also withdraws the date and time
ResyncBlock_forgettingDateTime(s) ==
    IF s.bResyncNeeded
    THEN [ClientEventNotify(s, MSF_EVENT_SYNC_LOST)
             EXCEPT !.nBitNum = 1, !.bHalfSync = FALSE,
                    !.bSyncedFlag = FALSE, !.bResyncNeeded = FALSE,
                    !.LocalDateTime.bHasValidTime = FALSE,
                    !.msf_DateTime.bHasValidTime = FALSE]
    ELSE s

ResyncBlock(s) ==
    IF s.bResyncNeeded
    THEN [ClientEventNotify(s, MSF_EVENT_SYNC_LOST)
             EXCEPT !.nBitNum = 1, !.bHalfSync = FALSE,
                    !.bSyncedFlag = FALSE, !.bResyncNeeded = FALSE]
    ELSE s

CountOf(seq, ev) == Cardinality({i \in 1..Len(seq) : seq[i] = ev})

Commit(s, e) ==
    /\ bSyncedFlag' = s.bSyncedFlag
    /\ A_bits' = s.A_bits
    /\ B_bits' = s.B_bits
    /\ LocalDateTime' = s.LocalDateTime
    /\ msf_DateTime' = s.msf_DateTime
    /\ T_LastOnStart' = s.T_LastOnStart
    /\ T_LastOffStart' = s.T_LastOffStart
    /\ eLastOnWidth' = s.eLastOnWidth
    /\ eLastOffWidth' = s.eLastOffWidth
    /\ T_CellStart' = s.T_CellStart
    /\ nBitNum' = s.nBitNum
    /\ bHalfSync' = s.bHalfSync
    /\ bResyncNeeded' = s.bResyncNeeded
    /\ memFault' = s.memFault
    /\ raised' = s.raised
    /\ delivered' = s.delivered
    /\ nDelivered' = nDelivered + CountOf(s.delivered, MSF_EVENT_DATETIME_UPDATED)
    /\ decodeRan' = s.decodeRan
    /\ wrote' = s.wrote
    /\ heard' = s.heard
    /\ edge' = e

\* HandleCarrierEvent(event_level), entered with the tick counter at event_time
HandleCarrierEvent(event_level, event_time) ==
    IF event_level = CARRIER_OFF
    THEN \E w \in GetWidth(Sub32(event_time, T_LastOnStart)) :
         \E wCell \in GetWidth(Sub32(event_time,
                         IF bSyncedFlag THEN T_CellStart ELSE event_time)) :
            Commit(ResyncBlock(CarrierOff(Cur, event_time, w, wCell)),
                   [level |-> event_level, span |-> w, cell |-> wCell])
    ELSE \E wOff \in GetWidth(Sub32(event_time, T_LastOffStart)) :
         \E wCell \in GetWidth(Sub32(event_time, T_CellStart)) :
            Commit(ResyncBlock(CarrierOn(Cur, event_time, wOff, wCell)),
                   [level |-> event_level, span |-> wOff, cell |-> wCell])


(***************************************************************************)
(* The API.                                                                *)
(***************************************************************************)
\* MSF_InitDecoder(pdata): InitRadioInterface registers and enables the edge
\* interrupt; a non-NULL pdata is saved and the buffer it points to zeroed
MSF_InitDecoder(pdata) ==
    /\ armed' = TRUE
    /\ lastInit' = [pdata |-> pdata, at |-> tx.markers]
    /\ IF pdata # NULL
       THEN /\ pClientDateTime' = pdata
            /\ msf_DateTime' = ZeroDateTime
       ELSE UNCHANGED <<pClientDateTime, msf_DateTime>>
    /\ UNCHANGED <<bSyncedFlag, A_bits, B_bits, LocalDateTime,
                   T_LastOnStart, T_LastOffStart, eLastOnWidth, eLastOffWidth,
                   T_CellStart, nBitNum, bHalfSync, bResyncNeeded,
                   memFault, raised, delivered, nDelivered, decodeRan, edge,
             wrote, heard>>
    /\ UNCHANGED <<pfClientEventCallback, ui32ClientEventMask, g_msSysTick,
                   msSinceLost, tx, arg, ret, hist, main, con>>

MSF_EnableEventNotifications(pCallbackFunc, enable_mask) ==
    /\ pfClientEventCallback' = pCallbackFunc
    /\ ui32ClientEventMask' = enable_mask
    /\ UNCHANGED <<decVars, pClientDateTime, armed, lastInit, g_msSysTick,
                   msSinceLost, tx, arg, ret, hist, main, con>>

MSF_GetSyncState == bSyncedFlag

(***************************************************************************)
(* The broadcast.  Second 0 of every minute is the minute marker (carrier  *)
(* off 500 ms, on 500 ms); each of the seconds 1..59 carries the bit pair  *)
(* (A, B) as one of four shapes.  A shape is listed as the edges that      *)
(* follow the CARRIER_OFF edge starting the second, each with its delay    *)
(* after the edge before it; its last edge starts the next second.         *)
(***************************************************************************)
Marker == << <<CARRIER_ON, 500>>, <<CARRIER_OFF, 500>> >>

Shape(a, b) ==
    CASE ~a /\ ~b -> << <<CARRIER_ON, 100>>, <<CARRIER_OFF, 900>> >>
      [] a /\ ~b  -> << <<CARRIER_ON, 200>>, <<CARRIER_OFF, 800>> >>
      [] a /\ b   -> << <<CARRIER_ON, 300>>, <<CARRIER_OFF, 700>> >>
      [] ~a /\ b  -> << <<CARRIER_ON, 100>>, <<CARRIER_OFF, 100>>,
                        <<CARRIER_ON, 100>>, <<CARRIER_OFF, 700>> >>

\* the bits of 1..59 that the BCD field msbit..lsbit sets for the decimal
\* value v: weights 1, 2, 4, 8 (units) and 10, 20, 40, 80 (tens), the units
\* at lsbit
Field(v, msbit, lsbit) ==
    {b \in msbit..lsbit :
        LET d == lsbit - b
        IN  IF d < 4 THEN ((v % 10) \div Pow2(d)) % 2 = 1
            ELSE ((v \div 10) \div Pow2(d - 4)) % 2 = 1}

\* the parity bit that gives A[from..to] plus that bit an odd number of ones
ParityBit(A, from, to, bit) ==
    IF Cardinality(A \cap (from..to)) % 2 = 0 THEN {bit} ELSE {}

\* A broadcast frame is the pair of the sets of positions in 1..59 whose A
\* bit, and whose B bit, is 1.  FrameOf builds the frame of a date/time dt,
\* with fixed bits and parity as broadcast; bx are further B bits (DUT1 in
\* 1..16, the summer-time warning 53).
FrameOf(dt, bx) ==
    LET A == Field(dt.Year, 17, 24) \cup Field(dt.Month, 25, 29)
             \cup Field(dt.Day, 30, 35) \cup Field(dt.DOW, 36, 38)
             \cup Field(dt.Hour, 39, 44) \cup Field(dt.Minute, 45, 51)
             \cup (53..58)
        B == bx \cup ParityBit(A, 17, 24, 54) \cup ParityBit(A, 25, 35, 55)
             \cup ParityBit(A, 36, 38, 56) \cup ParityBit(A, 39, 51, 57)
             \cup (IF dt.DST = 1 THEN {58} ELSE {})
    IN  [A |-> A, B |-> B]

DateTime(y, mo, d, dow, h, mi, dst) ==
    [Year |-> y, Month |-> mo, Day |-> d, DOW |-> dow, Hour |-> h,
     Minute |-> mi, DST |-> dst]

\* the seven fields a decode of frame f must give (read off f independently
\* of the decoder's bit arrays)
Weight(f, msbit, lsbit) ==
    LET w(d) == IF lsbit - d >= msbit /\ (lsbit - d) \in f.A THEN BCD[d + 1] ELSE 0
    IN  w(0) + w(1) + w(2) + w(3) + w(4) + w(5) + w(6) + w(7)

FieldsOf(f) ==
    DateTime(Weight(f, 17, 24), Weight(f, 25, 29), Weight(f, 30, 35),
             Weight(f, 36, 38), Weight(f, 39, 44), Weight(f, 45, 51),
             IF 58 \in f.B THEN 1 ELSE 0)

\* the fixed-bit and parity rules of the broadcast, on a frame
Odd(S) == Cardinality(S) % 2 = 1

FrameRulesHold(f) ==
    /\ 52 \notin f.A
    /\ (53..58) \subseteq f.A
    /\ 59 \notin f.A
    /\ Odd((f.A \cap (17..24)) \cup (f.B \cap {54}))
    /\ Odd((f.A \cap (25..35)) \cup (f.B \cap {55}))
    /\ Odd((f.A \cap (36..38)) \cup (f.B \cap {56}))
    /\ Odd((f.A \cap (39..51)) \cup (f.B \cap {57}))

\* f with the A bits of fa and the B bits of fb inverted
Flip(f, fa, fb) ==
    [A |-> (f.A \ fa) \cup (fa \ f.A), B |-> (f.B \ fb) \cup (fb \ f.B)]

\* the seconds holding an (A, B) = (0, 1) pair
ZeroOne(f) == f.B \ f.A

\* the byte array holding the bits of S: bit i in byte i \div 8 under mask
\* 2^(i % 8)
ByteOf(S, idx) ==
    LET bit(k) == IF 8 * idx + k \in S THEN Pow2(k) ELSE 0
    IN  bit(0) + bit(1) + bit(2) + bit(3) + bit(4) + bit(5) + bit(6) + bit(7)

BitsOf(S) == [idx \in 0..7 |-> ByteOf(S, idx)]


(***************************************************************************)
(* The state after the C start-up code: the static initialisers.           *)
(***************************************************************************)
StaticInitButBits ==
    /\ bSyncedFlag = FALSE
    /\ LocalDateTime = ZeroDateTime
    /\ pClientDateTime = NULL
    /\ pfClientEventCallback = NULL
    /\ ui32ClientEventMask = 0
    /\ T_LastOnStart = U32Of(0)
    /\ T_LastOffStart = U32Of(0)
    /\ eLastOnWidth = eWidth_INVALID
    /\ eLastOffWidth = eWidth_INVALID
    /\ T_CellStart = U32Of(0)
    /\ nBitNum = 1
    /\ bHalfSync = FALSE
    /\ bResyncNeeded = TRUE
    /\ g_msSysTick = U32Of(0)
    /\ msf_DateTime = ZeroDateTime
    /\ armed = FALSE
    /\ lastInit = NoInit
    /\ memFault = FALSE
    /\ raised = <<>>
    /\ delivered = <<>>
    /\ nDelivered = 0
    /\ decodeRan = FALSE
    /\ edge = NoEdge
    /\ msSinceLost = 0
    /\ wrote = {}
    /\ heard = <<>>
    /\ hist = NoHist
    /\ main = MainIdle
    /\ con = ConIdle

StaticInit ==
    /\ A_bits = ZeroBits
    /\ B_bits = ZeroBits
    /\ StaticInitButBits

(***************************************************************************)
(* The transmitter and the channel.                                        *)
(*   tx.frame    the frame of the minute being sent                        *)
(*   tx.next     the frame of the minutes after it                         *)
(*   tx.oddSec   the second of every minute that is sent with the shape    *)
(*               tx.odd instead of the shape of its bit pair; -2 for none  *)
(*   tx.minutes  the minutes to broadcast                                  *)
(*   tx.sec      the second being sent (0: the minute marker), -1 before   *)
(*               the first edge                                            *)
(*   tx.k        the edges of that second's shape already sent             *)
(*   tx.since    ms of the delay before the next broadcast edge that have  *)
(*               already passed (after an extra edge), or, negative, the   *)
(*               ms that are still to be added to it (after a lost edge)   *)
(*   tx.markers  minute markers completed                                  *)
(*   tx.noise    the channel has already disturbed this run                *)
(*   tx.last     "tx" a broadcast edge, "glitch" an extra edge, "drop" a   *)
(*               lost edge, was the last thing to happen                   *)
(***************************************************************************)
\* minutes broadcast in one run (a closing minute marker follows the last)
NumMinutes == 1

TxStart(f, minutes) ==
    [frame |-> f, next |-> f, minutes |-> minutes, sec |-> -1, k |-> 0,
     since |-> 0, markers |-> 0, noise |-> FALSE, last |-> "none",
     oddSec |-> -2, odd |-> <<>>]

TxIdle == TxStart([A |-> {}, B |-> {}], 0)

TxShape ==
    IF tx.sec = 0 /\ ~(tx.oddSec = 0 /\ tx.markers > 0) THEN Marker
    ELSE IF tx.sec = tx.oddSec THEN tx.odd
    ELSE Shape(tx.sec \in tx.frame.A, tx.sec \in tx.frame.B)

TxDone == tx.sec >= 0 /\ tx.markers > tx.minutes

\* the next broadcast edge, <<level, delay>>
TxNextEdge == TxShape[tx.k + 1]

\* the transmitter after sending its next edge
TxAdvance(how) ==
    IF tx.k + 1 < Len(TxShape)
    THEN [tx EXCEPT !.k = @ + 1, !.since = 0, !.last = how]
    ELSE [tx EXCEPT !.k = 0, !.since = 0, !.last = how,
                    !.sec = (@ + 1) % 60,
                    !.frame = IF tx.sec = 59 THEN tx.next ELSE @,
                    !.markers = IF tx.sec = 0 THEN @ + 1 ELSE @]

(***************************************************************************)
(* What an observer of the run records, step by step.                      *)
(*   hist.cells    the one-second cells of the broadcast received whole    *)
(*                 since SYNC was last notified, if that was at an edge    *)
(*                 that ends a second and the channel has not disturbed    *)
(*                 the run since; -1 otherwise                             *)
(*   hist.written  the setBit calls made since SYNC was last notified      *)
(*   hist.atDecode hist.written as it was when DecodeFrame last ran        *)
(*   hist.run      the broadcast edges received in a row, up to 3, since   *)
(*                 the channel last added or lost an edge                  *)
(*   hist.k0       the cursor as the edge that began the second being sent *)
(*                 left it, if it left the decoder SYNCED and the channel  *)
(*                 has not disturbed the second; 0 otherwise               *)
(*   hist.cell     the setBit calls made since that edge                   *)
(***************************************************************************)
\* the next broadcast edge is the last of the second being sent
EndsSecond == tx.sec >= 0 /\ tx.k + 1 = Len(TxShape)

\* the record after a step: how is "tx" for a broadcast edge, "glitch" for an
\* extra edge, "drop" for a lost one.  A broadcast edge that ends one of the
\* seconds 1..59 ends a cell.
Observe(how) ==
    LET sync == how # "drop" /\ CountOf(raised', MSF_EVENT_SYNC) > 0
    IN  [cells   |-> IF how # "tx" THEN -1
                     ELSE IF sync THEN (IF EndsSecond THEN 0 ELSE -1)
                     ELSE IF hist.cells = -1 THEN -1
                     ELSE IF EndsSecond /\ tx.sec # 0 THEN hist.cells + 1
                     ELSE hist.cells,
         written |-> IF how = "drop" THEN hist.written
                     ELSE IF sync THEN {}
                     ELSE hist.written \cup wrote',
         atDecode |-> IF how # "drop" /\ decodeRan' THEN hist.written
                      ELSE hist.atDecode,
         run     |-> IF how # "tx" THEN 0
                     ELSE IF hist.run < 3 THEN hist.run + 1 ELSE 3,
         k0      |-> IF how # "tx" THEN 0
                     ELSE IF EndsSecond
                          THEN (IF bSyncedFlag' THEN nBitNum' ELSE 0)
                     ELSE hist.k0,
         cell    |-> IF how = "drop" THEN hist.cell
                     ELSE IF how = "tx" /\ EndsSecond THEN {}
                     ELSE hist.cell \cup wrote']

\* the tick counter values at which the first edge is seen
StartTicks == {U32(0, 500)}

\* the edge interrupt: RadioGpioIntHandler reads the level and calls the
\* handler, which reads the tick counter
RadioGpioIntHandler(carrier_level, now, ms) ==
    /\ armed
    /\ ~memFault
    /\ g_msSysTick' = now
    /\ HandleCarrierEvent(carrier_level, now)
    /\ msSinceLost' = IF CountOf(raised', MSF_EVENT_SYNC_LOST) > 0 THEN 0
                      ELSE msSinceLost + ms
    /\ UNCHANGED <<apiVars, arg, ret, main, con>>

\* the first edge of a run: the CARRIER_OFF that starts a minute marker
FirstEdge ==
    /\ tx.sec = -1
    /\ \E now \in StartTicks : RadioGpioIntHandler(CARRIER_OFF, now, 0)
    /\ tx' = [tx EXCEPT !.sec = 0, !.last = "tx"]
    /\ hist' = Observe("tx")

\* the next edge of the broadcast arrives
TxEdge ==
    /\ tx.sec >= 0
    /\ ~TxDone
    /\ LET ms == TxNextEdge[2] - tx.since
       IN  RadioGpioIntHandler(TxNextEdge[1], Add32(g_msSysTick, ms), ms)
    /\ tx' = TxAdvance("tx")
    /\ hist' = Observe("tx")

\* noise: one extra edge, d ms after the last edge seen and before the next
\* broadcast edge
GlitchDelays == {10, 450, 500}

Glitch ==
    /\ tx.sec >= 0
    /\ ~TxDone
    /\ ~tx.noise
    /\ \E level \in {CARRIER_ON, CARRIER_OFF} :
       \E d \in GlitchDelays :
          /\ tx.since + d < TxNextEdge[2]
          /\ RadioGpioIntHandler(level, Add32(g_msSysTick, d), d)
          /\ tx' = [tx EXCEPT !.since = @ + d, !.noise = TRUE, !.last = "glitch"]
          /\ hist' = Observe("glitch")

\* noise: the next broadcast edge is lost (no interrupt)
Drop ==
    /\ tx.sec >= 0
    /\ ~TxDone
    /\ ~tx.noise
    /\ armed
    /\ ~memFault
    /\ tx' = [TxAdvance("drop") EXCEPT !.since = tx.since - TxNextEdge[2],
                                       !.noise = TRUE]
    /\ hist' = Observe("drop")
    /\ UNCHANGED <<decVars, apiVars, g_msSysTick, msSinceLost, arg, ret, main,
                   con>>


(***************************************************************************)
(* Spec: one run of the program.  The client sets the decoder up (main.c   *)
(* passes its buffer and registers no listener; both are optional), then   *)
(* the broadcast of a minute marker, the 59 seconds of one frame and the   *)
(* next minute marker arrives, disturbed at most once by the channel.      *)
(***************************************************************************)
NoCall == [fn |-> "none"]

NoRet == [done |-> FALSE, val |-> 0]

Canonical == DateTime(24, 5, 28, 2, 14, 37, 0)

LastOfCentury == DateTime(99, 12, 31, 6, 23, 59, 1)

\* the canonical frame with the fixed bit A53 forced to 0
Corrupted == Flip(FrameOf(Canonical, {}), {53}, {})

\* the frames broadcast under Spec: the second has DUT1 = +0.1 s (B1 set),
\* hence a second with (A, B) = (0, 1); the third breaks a fixed-bit rule
SpecFrames == {FrameOf(Canonical, {}), FrameOf(LastOfCentury, {1}), Corrupted}

Masks == {MSF_EVENT_SYNC + MSF_EVENT_SYNC_LOST + MSF_EVENT_DATETIME_UPDATED}

Init ==
    /\ StaticInit
    /\ tx \in {TxStart(f, NumMinutes) : f \in SpecFrames}
    /\ arg = NoCall
    /\ ret = NoRet

InitDecoder ==
    /\ ~armed
    /\ \E pdata \in {NULL, "msf_DateTime"} : MSF_InitDecoder(pdata)

EnableNotifications ==
    /\ ~armed
    /\ pfClientEventCallback = NULL
    /\ \E mask \in Masks : MSF_EnableEventNotifications("EventCallback", mask)

Next ==
    \/ InitDecoder
    \/ EnableNotifications
    \/ FirstEdge
    \/ TxEdge
    \/ Glitch
    \/ Drop

Spec == Init /\ [][Next]_vars

(***************************************************************************)
(* SpecResync: one minute more than Spec of a valid frame.  The channel    *)
(* disturbs the run at most once, and only before the minute marker that   *)
(* opens the last minute, so that marker, the 59 seconds after it and the  *)
(* closing marker arrive clean.  The client passes its buffer, as main.c   *)
(* does.                                                                   *)
(***************************************************************************)
ResyncFrames == {FrameOf(Canonical, {}), FrameOf(LastOfCentury, {1})}

InitResync ==
    /\ StaticInit
    /\ tx \in {TxStart(f, NumMinutes + 1) : f \in ResyncFrames}
    /\ arg = NoCall
    /\ ret = NoRet

InitDecoderMain ==
    /\ ~armed
    /\ MSF_InitDecoder("msf_DateTime")

\* the marker that opens the last minute has not begun
NoiseWindow ==
    /\ tx.markers < tx.minutes
    /\ ~(tx.markers = tx.minutes - 1 /\ tx.sec = 0)

\* the next broadcast edge is the one that begins that marker
OpensLastMinute ==
    /\ tx.markers = tx.minutes - 1
    /\ tx.sec = 59
    /\ tx.k + 1 = Len(TxShape)

EarlyGlitch ==
    /\ NoiseWindow
    /\ Glitch

EarlyDrop ==
    /\ NoiseWindow
    /\ ~OpensLastMinute
    /\ Drop

NextResync ==
    \/ InitDecoderMain
    \/ FirstEdge
    \/ TxEdge
    \/ EarlyGlitch
    \/ EarlyDrop

SpecResync == InitResync /\ [][NextResync]_vars

(***************************************************************************)
(* SpecClient: the client interface.  The broadcast of Spec is received    *)
(* without noise while the client calls MSF_InitDecoder and                *)
(* MSF_EnableEventNotifications at any time, before the first edge and     *)
(* between any two edges, with or without a buffer, with or without a      *)
(* listener, and with any of ClientMasks.                                  *)
(***************************************************************************)
\* 24-12-31 14:37 received with A29 and A34 inverted: two bit errors inside
\* one parity group, so the frame keeps the fixed-bit and parity rules
TwoBitErrors == Flip(FrameOf(DateTime(24, 12, 31, 2, 14, 37, 0), {}), {29, 34}, {})

ClientFrames == {FrameOf(Canonical, {}), TwoBitErrors}

ClientMasks ==
    {0, MSF_EVENT_SYNC, MSF_EVENT_SYNC_LOST + MSF_EVENT_DATETIME_UPDATED,
     MSF_EVENT_SYNC + MSF_EVENT_SYNC_LOST + MSF_EVENT_DATETIME_UPDATED}

InitClient ==
    /\ StaticInit
    /\ tx \in {TxStart(f, NumMinutes) : f \in ClientFrames}
    /\ arg = NoCall
    /\ ret = NoRet

ClientInitDecoder ==
    \E pdata \in {NULL, "msf_DateTime"} : MSF_InitDecoder(pdata)

ClientEnableNotifications ==
    \E pCallbackFunc \in {NULL, "EventCallback"} :
       \E enable_mask \in ClientMasks :
          MSF_EnableEventNotifications(pCallbackFunc, enable_mask)

NextClient ==
    \/ ClientInitDecoder
    \/ ClientEnableNotifications
    \/ FirstEdge
    \/ TxEdge

SpecClient == InitClient /\ [][NextClient]_vars


(***************************************************************************)
(* SpecMain: the decoder under main.c.  main() passes its buffer to        *)
(* MSF_InitDecoder and then polls the flags of the buffer; when both are   *)
(* set it calls PrintDateTime, which reads six fields of the buffer (as    *)
(* arguments of one call, so in no specified order), and then clears       *)
(* bDateTimeUpdated.  The edge interrupt can run between any two steps of  *)
(* the loop.  Two minutes are broadcast, 14:59 and then 15:00.             *)
(***************************************************************************)
Before == FrameOf(DateTime(24, 5, 28, 2, 14, 59, 0), {})

After == FrameOf(DateTime(24, 5, 28, 2, 15, 0, 0), {})

PrintedFields == {"Day", "Month", "Year", "Hour", "Minute", "DOW"}

\* the fields PrintDateTime has read so far
SeenFields == {t[1] : t \in main.seen}

\* what the loop leaves alone, but for the buffer
mainFrame ==
    <<bSyncedFlag, A_bits, B_bits, LocalDateTime, T_LastOnStart, T_LastOffStart,
      eLastOnWidth, eLastOffWidth, T_CellStart, nBitNum, bHalfSync,
      bResyncNeeded, memFault, raised, delivered, nDelivered, decodeRan, edge,
      wrote, heard, apiVars, g_msSysTick, msSinceLost, tx, arg, ret, hist,
      con>>

InitMain ==
    /\ StaticInit
    /\ tx = [TxStart(Before, NumMinutes + 1) EXCEPT !.next = After]
    /\ arg = NoCall
    /\ ret = NoRet

\* if ((msf_DateTime.bHasValidTime) && (msf_DateTime.bDateTimeUpdated))
MainPoll ==
    /\ armed
    /\ main.pc = "poll"
    /\ msf_DateTime.bHasValidTime /\ msf_DateTime.bDateTimeUpdated
    /\ main' = [pc |-> "print", seen |-> {}]
    /\ UNCHANGED <<mainFrame, msf_DateTime>>

\* PrintDateTime reads one more field
MainRead ==
    /\ main.pc = "print"
    /\ \E f \in PrintedFields \ SeenFields :
          main' = [main EXCEPT !.seen = @ \cup {<<f, msf_DateTime[f], tx.markers>>}]
    /\ UNCHANGED <<mainFrame, msf_DateTime>>

\* PrintDateTime returns; msf_DateTime.bDateTimeUpdated = false
MainClear ==
    /\ main.pc = "print"
    /\ SeenFields = PrintedFields
    /\ msf_DateTime' = [msf_DateTime EXCEPT !.bDateTimeUpdated = FALSE]
    /\ main' = [main EXCEPT !.pc = "poll"]
    /\ UNCHANGED mainFrame

NextMain ==
    \/ InitDecoderMain
    \/ FirstEdge
    \/ TxEdge
    \/ MainPoll
    \/ MainRead
    \/ MainClear

SpecMain == InitMain /\ [][NextMain]_vars

(***************************************************************************)
(* SpecCells: cells of any two widths.  The canonical frame is received    *)
(* without noise, but one second of it, in OddSeconds, arrives as an OFF   *)
(* span of any of OffWidths followed by an ON span of any of OnWidths.     *)
(***************************************************************************)
OffWidths == {100, 200, 300, 500}

OnWidths == {700, 800, 900}

OddSeconds == {1, 30}

\* the pairs of OFF and ON span that are one of the legal two-edge cells
LegalPairs == {<<100, 900>>, <<200, 800>>, <<300, 700>>}

InitCells ==
    /\ StaticInit
    /\ \E sec \in OddSeconds : \E x \in OffWidths : \E y \in OnWidths :
          tx = [TxStart(FrameOf(Canonical, {}), NumMinutes)
                   EXCEPT !.oddSec = sec,
                          !.odd = << <<CARRIER_ON, x>>, <<CARRIER_OFF, y>> >>]
    /\ arg = NoCall
    /\ ret = NoRet

NextCells ==
    \/ InitDecoderMain
    \/ FirstEdge
    \/ TxEdge

SpecCells == InitCells /\ [][NextCells]_vars

(***************************************************************************)
(* SpecDUT1: how far the cursor runs.  Either the canonical frame is       *)
(* broadcast with a positive DUT1 code: DUT1 = +0.n s is sent as B1..Bn    *)
(* set, n in 0..8, while A1..A16 are 0: n seconds with (A, B) = (0, 1).    *)
(* Or the minute marker that ends the first minute is received as a plain  *)
(* (0, 0) second and the cells of the next minute follow.  No other noise. *)
(***************************************************************************)
DUT1Frames == {FrameOf(Canonical, 1..n) : n \in 0..8}

MarkerMissed ==
    [TxStart(FrameOf(Canonical, {}), NumMinutes + 1)
        EXCEPT !.oddSec = 0, !.odd = Shape(FALSE, FALSE)]

InitDUT1 ==
    /\ StaticInit
    /\ tx \in {TxStart(f, NumMinutes) : f \in DUT1Frames} \cup {MarkerMissed}
    /\ arg = NoCall
    /\ ret = NoRet

NextDUT1 ==
    \/ InitDecoderMain
    \/ FirstEdge
    \/ TxEdge

SpecDUT1 == InitDUT1 /\ [][NextDUT1]_vars

(***************************************************************************)
(* SpecKeep: what follows a valid decode.  The canonical frame is received *)
(* without noise and decoded; the next minute carries a valid frame or the *)
(* corrupted one, and the channel may add or lose one edge in it.  The     *)
(* client may call MSF_InitDecoder again, with its buffer, once a date and  *)
(* time is held.                                                           *)
(***************************************************************************)
KeepNext == {After, Corrupted}

InitKeep ==
    /\ StaticInit
    /\ tx \in {[TxStart(FrameOf(Canonical, {}), NumMinutes + 1)
                  EXCEPT !.next = f] : f \in KeepNext}
    /\ arg = NoCall
    /\ ret = NoRet

ReInitDecoder ==
    /\ armed
    /\ LocalDateTime.bHasValidTime
    /\ MSF_InitDecoder("msf_DateTime")

LateGlitch ==
    /\ LocalDateTime.bHasValidTime
    /\ Glitch

LateDrop ==
    /\ LocalDateTime.bHasValidTime
    /\ Drop

NextKeep ==
    \/ InitDecoderMain
    \/ ReInitDecoder
    \/ FirstEdge
    \/ TxEdge
    \/ LateGlitch
    \/ LateDrop

SpecKeep == InitKeep /\ [][NextKeep]_vars

(***************************************************************************)
(* SpecWrap: the tick counter passes 2^32 - 1 during the minute.  The      *)
(* first edge is seen 1000 s + off ms before the wrap, so that the wrap    *)
(* falls off ms into second s of the broadcast.  No noise.                 *)
(***************************************************************************)
WrapSeconds == {0, 1, 17, 30, 52, 58, 59}

WrapOffsets == {50, 150, 250, 350, 600}

WrapStarts ==
    {U32(Half - 1, Half - (1000 * sec + off)) :
        sec \in WrapSeconds, off \in WrapOffsets}

WrapFrames == {FrameOf(Canonical, {}), FrameOf(LastOfCentury, {1})}

InitWrap ==
    /\ StaticInit
    /\ tx \in {TxStart(f, NumMinutes) : f \in WrapFrames}
    /\ arg = NoCall
    /\ ret = NoRet

FirstEdgeNearWrap ==
    /\ tx.sec = -1
    /\ \E now \in WrapStarts : RadioGpioIntHandler(CARRIER_OFF, now, 0)
    /\ tx' = [tx EXCEPT !.sec = 0, !.last = "tx"]
    /\ hist' = Observe("tx")

NextWrap ==
    \/ InitDecoderMain
    \/ FirstEdgeNearWrap
    \/ TxEdge

SpecWrap == InitWrap /\ [][NextWrap]_vars

(***************************************************************************)
(* SpecConsole: the transmit side of console.c.  The program writes bytes  *)
(* with Console_write and Console_putchar; the UART's transmit interrupt   *)
(* drains the buffer into the transmit FIFO, which has room for any number *)
(* of bytes up to its depth.                                               *)
(***************************************************************************)
\* Console_TxBufferCount()
Console_TxBufferCount(c) ==
    IF c.TxWriteIndex >= c.TxReadIndex
    THEN c.TxWriteIndex - c.TxReadIndex
    ELSE TxBufferSize - (c.TxReadIndex - c.TxWriteIndex)

TX_BUFFER_EMPTY(c) == Console_TxBufferCount(c) = 0

\* a full test that follows the comment at TxBuffer: full when the read
\* index is one ahead of the write index
TX_BUFFER_FULL_oneAhead(c) == Console_TxBufferCount(c) = TxBufferSize - 1

TX_BUFFER_FULL(c) == Console_TxBufferCount(c) = TxBufferSize

\* TxBuffer[TxWriteIndex] = byte; ADVANCE_TX_BUFFER_INDEX(TxWriteIndex)
StoreTx(c, byte) ==
    [c EXCEPT !.TxBuffer[c.TxWriteIndex] = byte,
              !.TxWriteIndex = (@ + 1) % TxBufferSize,
              !.accepted = Append(@, byte),
              !.nWriteCount = @ + 1]

\* the for loop of Console_write from index on (pBuffer counted from 1)
RECURSIVE WriteLoop(_, _, _, _)
WriteLoop(c, pBuffer, index, len) ==
    IF index > len THEN c
    ELSE IF ~TX_BUFFER_FULL(c)
         THEN WriteLoop(StoreTx(c, pBuffer[index]), pBuffer, index + 1, len)
    ELSE c

\* PrimeTheTransmitFIFO() with room for space bytes in the transmit FIFO
RECURSIVE PrimeTheTransmitFIFO(_, _)
PrimeTheTransmitFIFO(c, space) ==
    IF space > 0 /\ ~TX_BUFFER_EMPTY(c)
    THEN PrimeTheTransmitFIFO(
             [c EXCEPT !.uart = Append(@, c.TxBuffer[c.TxReadIndex]),
                       !.TxReadIndex = (@ + 1) % TxBufferSize],
             space - 1)
    ELSE c

conFrame ==
    <<decVars, apiVars, g_msSysTick, msSinceLost, tx, arg, ret, hist, main>>

\* Console_write(pBuffer, len)
Console_write(len, space) ==
    /\ con.offered + len <= MaxBytes
    /\ LET a == [con EXCEPT !.offered = @ + len, !.nWriteCount = 0]
           b == WriteLoop(a, [i \in 1..len |-> con.offered + i], 1, len)
       IN  con' = IF ~TX_BUFFER_EMPTY(b) THEN PrimeTheTransmitFIFO(b, space)
                  ELSE b
    /\ UNCHANGED conFrame

\* Console_putchar(achar)
Console_putchar ==
    /\ con.offered + 1 <= MaxBytes
    /\ LET a == [con EXCEPT !.offered = @ + 1, !.nWriteCount = 0]
       IN  con' = IF TX_BUFFER_FULL(a) THEN a ELSE StoreTx(a, a.offered)
    /\ UNCHANGED conFrame

\* ConsoleUARTIntHandler, on UART_INT_TX
ConsoleUARTIntHandler(space) ==
    /\ ~TX_BUFFER_EMPTY(con)
    /\ con' = PrimeTheTransmitFIFO(con, space)
    /\ UNCHANGED conFrame

\* the while loop of Console_puts from the i-th character of pstr on; the
\* result of Console_putchar is not looked at
RECURSIVE PutsLoop(_, _, _)
PutsLoop(c, pstr, i) ==
    IF i > Len(pstr) THEN c
    ELSE PutsLoop(IF TX_BUFFER_FULL(c) THEN c ELSE StoreTx(c, pstr[i]),
                  pstr, i + 1)

\* the string "\n\r": LF (10), CR (13)
NewlineReturn == <<10, 13>>

\* Console_puts(pstr), pstr without its terminating NUL: the loop, then
\* Console_write("\n\r", 1)
Console_puts(pstr, space) ==
    /\ con.offered + Len(pstr) + 1 <= MaxBytes
    /\ LET a == [con EXCEPT !.offered = @ + Len(pstr) + 1, !.nWriteCount = 0]
           b == PutsLoop(a, pstr, 1)
           c == WriteLoop([b EXCEPT !.nWriteCount = 0], NewlineReturn, 1, 1)
       IN  con' = IF ~TX_BUFFER_EMPTY(c) THEN PrimeTheTransmitFIFO(c, space)
                  ELSE c
    /\ UNCHANGED conFrame

InitConsole ==
    /\ StaticInit
    /\ tx = TxStart(FrameOf(Canonical, {}), NumMinutes)
    /\ arg = NoCall
    /\ ret = NoRet

NextConsole ==
    \/ \E len \in 1..MaxBytes : \E space \in 0..TxBufferSize :
          Console_write(len, space)
    \/ Console_putchar
    \/ \E space \in 1..TxBufferSize : ConsoleUARTIntHandler(space)

SpecConsole == InitConsole /\ [][NextConsole]_vars

(***************************************************************************)
(* SpecConsoleRx: the receive side of console.c.  The UART's receive       *)
(* interrupt finds one or more characters in the receive FIFO; the program *)
(* reads with Console_getchar, which waits while the buffer is empty.      *)
(***************************************************************************)
\* Console_RxBufferCount()
Console_RxBufferCount(c) ==
    IF c.RxWriteIndex >= c.RxReadIndex
    THEN c.RxWriteIndex - c.RxReadIndex
    ELSE RxBufferSize - (c.RxReadIndex - c.RxWriteIndex)

RX_BUFFER_EMPTY(c) == Console_RxBufferCount(c) = 0

RX_BUFFER_FULL(c) == Console_RxBufferCount(c) = RxBufferSize

\* the while loop of the receive branch of ConsoleUARTIntHandler, with n
\* characters in the receive FIFO
RECURSIVE ReceiveLoop(_, _)
ReceiveLoop(c, n) ==
    IF n = 0 THEN c
    ELSE LET aChar == c.arrived + 1
             a     == [c EXCEPT !.arrived = aChar]
         IN  ReceiveLoop(
                 IF ~RX_BUFFER_FULL(a)
                 THEN [a EXCEPT !.RxBuffer[a.RxWriteIndex] = aChar,
                                !.RxWriteIndex = (@ + 1) % RxBufferSize,
                                !.stored = Append(@, aChar)]
                 ELSE a,
                 n - 1)

\* ConsoleUARTIntHandler, on UART_INT_RX or UART_INT_RT
ConsoleUARTIntHandlerRx(n) ==
    /\ con.arrived + n <= MaxBytes
    /\ con' = ReceiveLoop(con, n)
    /\ UNCHANGED conFrame

\* Console_getchar()
Console_getchar ==
    /\ ~RX_BUFFER_EMPTY(con)
    /\ con' = [con EXCEPT !.got = Append(@, con.RxBuffer[con.RxReadIndex]),
                          !.RxReadIndex = (@ + 1) % RxBufferSize]
    /\ UNCHANGED conFrame

NextConsoleRx ==
    \/ \E n \in 1..RxBufferSize : ConsoleUARTIntHandlerRx(n)
    \/ Console_getchar

SpecConsoleRx == InitConsole /\ [][NextConsoleRx]_vars

(***************************************************************************)
(* SpecPuts: the program prints strings of up to two characters with       *)
(* Console_puts while the UART drains the transmit buffer.                 *)
(***************************************************************************)
Strings == {<<>>, <<65>>, <<65, 66>>}

PutsString ==
    \E pstr \in Strings : \E space \in 0..TxBufferSize :
       Console_puts(pstr, space)

DrainTx == \E space \in 1..TxBufferSize : ConsoleUARTIntHandler(space)

NextPuts ==
    \/ PutsString
    \/ DrainTx

SpecPuts == InitConsole /\ [][NextPuts]_vars

(***************************************************************************)
(* SpecFn: the pure functions on their own.  A run is one call: arg is the *)
(* call (the function and its arguments, for the two functions that read   *)
(* the bit arrays the contents of the arrays), ret its result.             *)
(***************************************************************************)
Ret(v) == [done |-> TRUE, val |-> v]

\* GetWidth is called on the low widths 0..MaxWidth and on the MaxWidth
\* values below a multiple of 2^16, in the lowest, the two middle and the
\* highest 2^16 block of the uint32_t range
MaxWidth == 1000

WidthArgs ==
    {U32(h, l) : h \in {0, 32767, 32768, 65535},
                 l \in (0..MaxWidth) \cup ((Half - 1 - MaxWidth)..(Half - 1))}

WidthCalls == {[fn |-> "GetWidth", width |-> w, A |-> {}, B |-> {}] : w \in WidthArgs}

\* ValidateBCD is called on two broadcast frames with up to MaxFlips of
\* these bits inverted (an A bit p is listed as p, a B bit p as 100 + p):
\* every bit ValidateBCD reads, and A16, B53, B58, which it does not
MaxFlips == 2

FlipPos == (16..59) \cup {153, 154, 155, 156, 157, 158}

RECURSIVE FlipsUpTo(_)
FlipsUpTo(k) ==
    IF k = 0 THEN {{}}
    ELSE LET prev == FlipsUpTo(k - 1)
         IN  prev \cup {S \cup {x} : S \in prev, x \in FlipPos}

Flipped(f, S) ==
    Flip(f, {p \in S : p < 100}, {p - 100 : p \in {q \in S : q > 100}})

BaseFrames == {FrameOf(Canonical, {}), FrameOf(LastOfCentury, {1, 53})}

ValidateCalls ==
    {[fn |-> "ValidateBCD", flips |-> S,
      A |-> Flipped(f, S).A, B |-> Flipped(f, S).B] :
        f \in BaseFrames, S \in FlipsUpTo(MaxFlips)}

\* the field table of DecodeFrame: array, msbit, lsbit and the documented
\* range of the value
FieldTable ==
    << [arr |-> "A", msbit |-> 17, lsbit |-> 24, lo |-> 0, hi |-> 99],
       [arr |-> "A", msbit |-> 25, lsbit |-> 29, lo |-> 1, hi |-> 12],
       [arr |-> "A", msbit |-> 30, lsbit |-> 35, lo |-> 1, hi |-> 31],
       [arr |-> "A", msbit |-> 36, lsbit |-> 38, lo |-> 0, hi |-> 6],
       [arr |-> "A", msbit |-> 39, lsbit |-> 44, lo |-> 0, hi |-> 23],
       [arr |-> "A", msbit |-> 45, lsbit |-> 51, lo |-> 0, hi |-> 59],
       [arr |-> "B", msbit |-> 58, lsbit |-> 58, lo |-> 0, hi |-> 1] >>

\* ExtractBCD is called on every field of the table holding the BCD code of
\* every value v of its range, and on the 8-bit field holding every bit
\* pattern (v = -1); the other bits of the array are all 0 or all 1
ExtractCallsOf(i) ==
    LET fld  == FieldTable[i]
        rest == (1..59) \ (fld.msbit..fld.lsbit)
    IN  {[fn |-> "ExtractBCD", arr |-> fld.arr, msbit |-> fld.msbit,
          lsbit |-> fld.lsbit, v |-> v,
          A |-> Field(v, fld.msbit, fld.lsbit) \cup bg,
          B |-> Field(v, fld.msbit, fld.lsbit) \cup bg] :
            v \in fld.lo..fld.hi, bg \in {{}, rest}}

ExtractCalls ==
    UNION {ExtractCallsOf(i) : i \in 1..Len(FieldTable)}
    \cup
    {[fn |-> "ExtractBCD", arr |-> "A", msbit |-> 17, lsbit |-> 24, v |-> -1,
      A |-> S \cup bg, B |-> {}] :
        S \in SUBSET (17..24), bg \in {{}, (1..16) \cup (25..59)}}

\* what a diagnostic of ValidateBCD names: the A bits lo..hi and the B bit
\* parity, 0 if it names none
Names(lo, hi, parity) == [lo |-> lo, hi |-> hi, parity |-> parity]

\* no diagnostic
NoLog == Names(0, 0, 0)

\* the diagnostic ValidateBCD logs with LOGprintf(LOG_BCD_ERROR, ...), by
\* what its text names
ValidateBCDLog(A, B) ==
    IF getBit(A, 52) THEN Names(52, 52, 0)
    ELSE IF \E bitnum \in 53..58 : ~getBit(A, bitnum)
         THEN LET bitnum == CHOOSE b \in 53..58 :
                               /\ ~getBit(A, b)
                               /\ \A c \in 53..(b - 1) : getBit(A, c)
              IN  Names(bitnum, bitnum, 0)
    ELSE IF getBit(A, 59) THEN Names(59, 59, 0)
    ELSE IF ~CheckOddParity(A, 17, 24, getBit(B, 54)) THEN Names(17, 24, 54)
    ELSE IF ~CheckOddParity(A, 25, 35, getBit(B, 55)) THEN Names(25, 35, 55)
    ELSE IF ~CheckOddParity(A, 36, 38, getBit(B, 56)) THEN Names(36, 38, 55)
    ELSE IF ~CheckOddParity(A, 39, 51, getBit(B, 57)) THEN Names(39, 51, 57)
    ELSE NoLog

InitFn ==
    /\ StaticInitButBits
    /\ arg \in WidthCalls \cup ValidateCalls \cup ExtractCalls
    /\ A_bits = BitsOf(arg.A)
    /\ B_bits = BitsOf(arg.B)
    /\ ret = NoRet
    /\ tx = TxIdle

Returns(v) ==
    /\ ret' = Ret(v)
    /\ UNCHANGED <<decVars, apiVars, g_msSysTick, msSinceLost, tx, arg, hist,
                   main, con>>

CallGetWidth ==
    /\ arg.fn = "GetWidth"
    /\ ~ret.done
    /\ \E r \in GetWidth(arg.width) : Returns(r)

CallValidateBCD ==
    /\ arg.fn = "ValidateBCD"
    /\ ~ret.done
    /\ Returns(ValidateBCD(A_bits, B_bits))

CallExtractBCD ==
    /\ arg.fn = "ExtractBCD"
    /\ ~ret.done
    /\ Returns(ExtractBCD(IF arg.arr = "A" THEN A_bits ELSE B_bits,
                          arg.msbit, arg.lsbit))

NextFn ==
    \/ CallGetWidth
    \/ CallValidateBCD
    \/ CallExtractBCD

SpecFn == InitFn /\ [][NextFn]_vars

(***************************************************************************)
(* SpecBits: setBit and then getBit on the same index, on arrays that are  *)
(* empty, full or hold the canonical frame.                                *)
(***************************************************************************)
BitContents ==
    {{}, 1..59, FrameOf(Canonical, {}).A, FrameOf(Canonical, {}).B}

BitCalls ==
    {[fn |-> "setBit", arr |-> a, bitnum |-> i, bSet |-> v, A |-> SA, B |-> SB] :
        a \in {"A", "B"}, i \in 1..59, v \in BOOLEAN,
        SA \in BitContents, SB \in BitContents}

InitBits ==
    /\ StaticInitButBits
    /\ arg \in BitCalls
    /\ A_bits = BitsOf(arg.A)
    /\ B_bits = BitsOf(arg.B)
    /\ ret = NoRet
    /\ tx = TxIdle

\* setBit(array, bitnum, bSet); return getBit(array, bitnum)
CallSetBitGetBit ==
    /\ arg.fn = "setBit"
    /\ ~ret.done
    /\ A_bits' = IF arg.arr = "A" THEN setBit(A_bits, arg.bitnum, arg.bSet)
                 ELSE A_bits
    /\ B_bits' = IF arg.arr = "B" THEN setBit(B_bits, arg.bitnum, arg.bSet)
                 ELSE B_bits
    /\ ret' = Ret(getBit(IF arg.arr = "A" THEN A_bits' ELSE B_bits',
                         arg.bitnum))
    /\ UNCHANGED <<bSyncedFlag, LocalDateTime, T_LastOnStart, T_LastOffStart,
                   eLastOnWidth, eLastOffWidth, T_CellStart, nBitNum,
                   bHalfSync, bResyncNeeded, msf_DateTime, memFault, raised,
                   delivered, nDelivered, decodeRan, edge, wrote, heard>>
    /\ UNCHANGED <<apiVars, g_msSysTick, msSinceLost, tx, arg, hist, main,
                   con>>

SpecBits == InitBits /\ [][CallSetBitGetBit]_vars

(***************************************************************************)
(* SpecLog: ValidateBCD on its own, for what it logs.                      *)
(***************************************************************************)
LogCalls == {[c EXCEPT !.fn = "ValidateBCD log"] : c \in ValidateCalls}

InitLog ==
    /\ StaticInitButBits
    /\ arg \in LogCalls
    /\ A_bits = BitsOf(arg.A)
    /\ B_bits = BitsOf(arg.B)
    /\ ret = NoRet
    /\ tx = TxIdle

CallValidateBCDLog ==
    /\ arg.fn = "ValidateBCD log"
    /\ ~ret.done
    /\ Returns(ValidateBCDLog(A_bits, B_bits))

SpecLog == InitLog /\ [][CallValidateBCDLog]_vars


(***************************************************************************)
(* Properties.                                                             *)
(***************************************************************************)
\* ev is among the events of seq
Has(seq, ev) == \E i \in 1..Len(seq) : seq[i] = ev

\* the listener is registered for ev
Subscribed(ev) ==
    pfClientEventCallback # NULL /\ MaskSet(ui32ClientEventMask, ev)

\* a step in which the edge interrupt ran
EdgeStep == tx' # tx /\ tx'.last # "drop"

\* |w - n| < PULSE_MARGIN, for the uint32_t w as the integer it denotes
Within(w, n) ==
    w[1] = 0 /\ w[2] - n < PULSE_MARGIN /\ n - w[2] < PULSE_MARGIN

\* the frame held in the bit arrays
StoredFrame ==
    [A |-> {i \in 1..59 : getBit(A_bits, i)},
     B |-> {i \in 1..59 : getBit(B_bits, i)}]

\* dt holds the seven fields of frame f
FieldsMatch(dt, f) ==
    LET v == FieldsOf(f)
    IN  /\ dt.Year = v.Year /\ dt.Month = v.Month /\ dt.Day = v.Day
        /\ dt.DOW = v.DOW /\ dt.Hour = v.Hour /\ dt.Minute = v.Minute
        /\ dt.DST = v.DST

\* the date/time of frame f is held, flagged valid and updated, and is in
\* the client's buffer if there is one
Published(f) ==
    /\ LocalDateTime.bHasValidTime
    /\ LocalDateTime.bDateTimeUpdated
    /\ FieldsMatch(LocalDateTime, f)
    /\ pClientDateTime # NULL => msf_DateTime = LocalDateTime

\* C1: GetWidth classifies an interval w as the nominal width n exactly when
\* |w - n| < 30 and as INVALID when it is within 30 of no nominal width; no w
\* is within 30 of two nominal widths.
C1_GetWidthExact ==
    (ret.done /\ arg.fn = "GetWidth") =>
        /\ \A k \in 1..Len(Nominal) :
              (ret.val = eWidthOf[k]) <=> Within(arg.width, Nominal[k])
        /\ (ret.val = eWidth_INVALID) <=>
              (\A k \in 1..Len(Nominal) : ~Within(arg.width, Nominal[k]))
        /\ \A j, k \in 1..Len(Nominal) :
              (Within(arg.width, Nominal[j]) /\ Within(arg.width, Nominal[k]))
                  => j = k

\* C2: after a clean broadcast of a minute marker, the 59 seconds of a frame
\* that satisfies the fixed-bit and parity rules, and the next minute marker,
\* the decoder is SYNCED, the frame's date/time is published with the updated
\* flag set, and one DATETIME_UPDATED per minute has reached a subscribed
\* listener.
C2_CleanSyncAndDecode ==
    (TxDone /\ ~tx.noise /\ FrameRulesHold(tx.frame)) =>
        /\ MSF_GetSyncState
        /\ Published(tx.frame)
        /\ nDelivered = IF Subscribed(MSF_EVENT_DATETIME_UPDATED)
                        THEN tx.minutes ELSE 0

\* the canonical frame, received clean, has been decoded to 24-05-28, day 2,
\* 14:37, DST 0
C2_CanonicalDecoded ==
    /\ TxDone /\ ~tx.noise /\ tx.frame = FrameOf(Canonical, {})
    /\ MSF_GetSyncState
    /\ pClientDateTime # NULL
    /\ msf_DateTime = [bHasValidTime |-> TRUE, bDateTimeUpdated |-> TRUE,
                       Year |-> 24, Month |-> 5, Day |-> 28, DOW |-> 2,
                       Hour |-> 14, Minute |-> 37, DST |-> 0]

\* the bits ValidateBCD reads (an A bit p as p, a B bit p as 100 + p)
CheckedBits == (17..59) \cup {154, 155, 156, 157}

\* C3: ValidateBCD accepts a frame exactly when A52 = 0, A53..A58 = 1,
\* A59 = 0 and each of the four parity groups, with its parity bit, has an odd
\* number of ones; so a frame built to the rules passes, and one with a single
\* fixed bit, data bit or parity bit inverted fails.
C3_ValidateBCDIffRules ==
    (ret.done /\ arg.fn = "ValidateBCD") =>
        /\ ret.val <=> FrameRulesHold([A |-> arg.A, B |-> arg.B])
        /\ arg.flips = {} => ret.val
        /\ (Cardinality(arg.flips) = 1 /\ arg.flips \subseteq CheckedBits)
              => ~ret.val

\* a frame with one data bit of a parity group inverted has been rejected
C3_SingleFlipRejected ==
    /\ ret.done /\ arg.fn = "ValidateBCD"
    /\ arg.flips = {20}
    /\ ret.val = FALSE

\* C4: ExtractBCD returns the sum of the weights 1, 2, 4, 8, 10, 20, 40, 80,
\* given out from lsbit down to msbit, of the bits that are set; it returns v
\* for every field of the field table that holds the BCD code of a value v of
\* its range (0..99 for the 8-bit field).
C4_ExtractBCDWeights ==
    (ret.done /\ arg.fn = "ExtractBCD") =>
        LET bits == IF arg.arr = "A" THEN arg.A ELSE arg.B
        IN  /\ ret.val = Weight([A |-> bits, B |-> {}], arg.msbit, arg.lsbit)
            /\ arg.v # -1 => ret.val = arg.v

\* 99 has been extracted from the 8-bit field, the other bits all set
C4_Extracted99 ==
    /\ ret.done /\ arg.fn = "ExtractBCD"
    /\ arg.msbit = 17 /\ arg.lsbit = 24 /\ arg.v = 99
    /\ 25 \in arg.A
    /\ ret.val = 99

\* C5: when DecodeFrame is run on a completed frame that breaks the rules,
\* that edge call extracts and publishes nothing (the held date/time and the
\* client's buffer are unchanged, no DATETIME_UPDATED is notified), notifies
\* SYNC_LOST (delivered to a subscribed listener) and leaves the decoder not
\* SYNCED.
C5_ResyncOnCorruption ==
    [][(EdgeStep /\ decodeRan' /\ ~FrameRulesHold(StoredFrame)) =>
          /\ LocalDateTime' = LocalDateTime
          /\ msf_DateTime' = msf_DateTime
          /\ ~Has(raised', MSF_EVENT_DATETIME_UPDATED)
          /\ nDelivered' = nDelivered
          /\ Has(raised', MSF_EVENT_SYNC_LOST)
          /\ Subscribed(MSF_EVENT_SYNC_LOST)
                => Has(delivered', MSF_EVENT_SYNC_LOST)
          /\ ~bSyncedFlag']_vars

\* the frame with A53 forced to 0 has been received clean and rejected at the
\* closing minute marker
C5_CorruptedRejected ==
    /\ TxDone /\ ~tx.noise /\ tx.frame = Corrupted
    /\ decodeRan
    /\ StoredFrame.A = Corrupted.A
    /\ Has(raised, MSF_EVENT_SYNC_LOST)
    /\ ~MSF_GetSyncState
    /\ LocalDateTime = ZeroDateTime

\* C6: whenever the decoder is SYNCED and an edge ends a span that classifies
\* as INVALID, that edge call leaves the decoder not SYNCED, the cursor 1 and
\* half-sync clear, and SYNC_LOST notified (delivered to a subscribed
\* listener).
C6_ResyncOnIllegalTiming ==
    [][(EdgeStep /\ bSyncedFlag /\ edge'.span = eWidth_INVALID) =>
          /\ ~bSyncedFlag'
          /\ nBitNum' = 1
          /\ ~bHalfSync'
          /\ Has(raised', MSF_EVENT_SYNC_LOST)
          /\ Subscribed(MSF_EVENT_SYNC_LOST)
                => Has(delivered', MSF_EVENT_SYNC_LOST)]_vars

\* the channel has disturbed the run, the last resync came after the first
\* edge and no later than the edge that begins the last minute's marker, and
\* that marker, the 59 seconds and the closing marker have been received since
CleanCycleAfterResync ==
    /\ TxDone
    /\ tx.noise
    /\ msSinceLost >= 61000
    /\ msSinceLost < 61000 + 60000 * (tx.minutes - 1)

\* C7: after a forced resync, a clean minute marker, the 59 clean seconds of
\* a valid frame and a closing minute marker publish that frame's date/time,
\* whatever the earlier edges left behind.
C7_DecodeAfterResync ==
    (CleanCycleAfterResync /\ FrameRulesHold(tx.frame)) => Published(tx.frame)

\* C8: while the decoder is SYNCED the cursor is in 1..59, and it is 1 after
\* an edge call that acquired SYNC.
C8_CursorInvariant ==
    /\ bSyncedFlag => nBitNum \in 1..59
    /\ Has(raised, MSF_EVENT_SYNC) => nBitNum = 1

\* C9 as stated: MSF_GetSyncState is true only when at least 60 seconds of
\* signal have been received since sync was last lost.
C9_SyncOnlyAfterFullCycle ==
    MSF_GetSyncState => msSinceLost >= 60000

\* C9, amended: MSF_GetSyncState turns true as soon as one SYNC preamble is
\* recognised, namely at a CARRIER_OFF edge that ends an ON span classified
\* 500 ms while half-sync is set (a CARRIER_ON edge 500 ms after the cell
\* start ended an OFF span classified 500 ms), and never sooner after a loss
\* of sync than the shortest ON span so classified.
C9_SyncAfterOnePreamble ==
    [][(~bSyncedFlag /\ bSyncedFlag') =>
          /\ EdgeStep
          /\ edge'.level = CARRIER_OFF
          /\ edge'.span = eWidth_500
          /\ bHalfSync
          /\ eLastOffWidth = eWidth_500
          /\ msSinceLost' > 500 - PULSE_MARGIN]_vars

\* the decoder is SYNCED one second after the loss of sync at the first edge,
\* before any second of the frame has been received
C9_SyncedAfterOneSecond ==
    /\ MSF_GetSyncState
    /\ msSinceLost = 1000
    /\ edge.level = CARRIER_OFF /\ edge.span = eWidth_500
    /\ tx.markers = 1 /\ tx.sec = 1 /\ tx.k = 0
    /\ nBitNum = 1

\* C10: SYNC is notified (the decoder becomes or stays SYNCED, the cursor is
\* reset) only at a CARRIER_OFF edge that ends a 500 ms ON span which followed
\* a 500 ms OFF span; a 500 ms ON span that followed any other OFF span gets
\* a resync.
C10_SyncOnlyAfter500Off ==
    [][EdgeStep =>
          /\ Has(raised', MSF_EVENT_SYNC) =>
                /\ edge'.level = CARRIER_OFF
                /\ edge'.span = eWidth_500
                /\ eLastOffWidth' = eWidth_500
          /\ (/\ edge'.level = CARRIER_OFF
              /\ edge'.span = eWidth_500
              /\ eLastOffWidth' # eWidth_500)
                => Has(raised', MSF_EVENT_SYNC_LOST)]_vars

\* a broadcast edge that ends a minute marker, received after 59 whole cells
\* and nothing else since SYNC was last notified
FrameCompleted == tx.sec = 0 /\ EndsSecond /\ hist.cells = 59

\* DecodeFrame runs at no other edge
C11_DecodeOnlyAfter59Cells ==
    [][EdgeStep /\ decodeRan' => FrameCompleted]_vars

\* DecodeFrame runs at every such edge
C11_DecodeEveryFrame ==
    [][EdgeStep /\ tx'.last = "tx" /\ FrameCompleted => decodeRan']_vars

\* C11: DecodeFrame runs at the edge that completes a SYNC preamble after
\* exactly 59 error-free cells received since SYNC was last acquired, at every
\* such edge, and at no other edge.
C11_DecodeOncePerFrame ==
    [][EdgeStep => (decodeRan' <=> (tx'.last = "tx" /\ FrameCompleted))]_vars

\* the bits DecodeFrame reads
FrameBits == {<<arr, i>> : arr \in {"A", "B"}, i \in 1..59}

\* C12: when DecodeFrame runs, every bit A[i] and B[i], i in 1..59,
\* has been written since SYNC was last notified before this edge call.
C12_DecodeReadsFreshBits ==
    [][EdgeStep /\ decodeRan' => FrameBits \subseteq hist.written]_vars

\* what holds of every run with at most one disturbance: when DecodeFrame
\* runs, every bit A[i] and B[i], i in 1..59, other than A[1] has been written
\* since SYNC was last notified before this edge call; DecodeFrame reads
\* A[17..59] and B[54..58]
C12_AllButA1Fresh ==
    [][EdgeStep /\ decodeRan' =>
           FrameBits \ {<<"A", 1>>} \subseteq hist.written]_vars

\* DecodeFrame has run on an A[1] written before SYNC was last notified
C12_DecodedWithStaleA1 ==
    /\ decodeRan
    /\ <<"A", 1>> \notin hist.atDecode
    /\ <<"B", 1>> \in hist.atDecode

\* C13: when MSF_InitDecoder returns the decoder is not SYNCED, half-sync is
\* clear and the cursor is 1, whatever the state before the call; a buffer
\* passed to it is zeroed and registered.
C13_InitResetsSyncState ==
    [][\A pdata \in {NULL, "msf_DateTime"} :
          MSF_InitDecoder(pdata) =>
              /\ ~bSyncedFlag' /\ ~bHalfSync' /\ nBitNum' = 1
              /\ pdata # NULL =>
                     pClientDateTime' = pdata /\ msf_DateTime' = ZeroDateTime]_vars

\* what holds: a buffer passed to MSF_InitDecoder is zeroed and registered,
\* and the call changes nothing else but to enable the edge interrupt
C13_InitZeroesBuffer ==
    [][MSF_InitDecoder("msf_DateTime") =>
          /\ pClientDateTime' = "msf_DateTime" /\ msf_DateTime' = ZeroDateTime
          /\ bSyncedFlag' = bSyncedFlag /\ nBitNum' = nBitNum]_vars

\* the events of seq for which the listener is registered
Filtered(seq) ==
    LET Wanted(ev) == Subscribed(ev)
    IN  SelectSeq(seq, Wanted)

\* C14: the events delivered in an edge call are, in order, the events raised
\* in it whose kind is set in the mask, if a listener is registered, and none
\* otherwise; MSF_EnableEventNotifications replaces both listener and mask.
C14_DeliveredIffSubscribed ==
    [][/\ EdgeStep => delivered' = Filtered(raised')
       /\ \A pCallbackFunc \in {NULL, "EventCallback"} :
             \A enable_mask \in ClientMasks :
                MSF_EnableEventNotifications(pCallbackFunc, enable_mask) =>
                    /\ pfClientEventCallback' = pCallbackFunc
                    /\ ui32ClientEventMask' = enable_mask]_vars

\* an edge call raised two events and the mask let one of them through
C14_OneOfTwoDelivered ==
    /\ Len(raised) = 2
    /\ Len(delivered) = 1
    /\ pfClientEventCallback # NULL

\* bResyncNeeded as the edge call of this step finds it at its closing block
ResyncRequested ==
    LET s == IF edge'.level = CARRIER_OFF
             THEN CarrierOff(Cur, g_msSysTick', edge'.span, edge'.cell)
             ELSE CarrierOn(Cur, g_msSysTick', edge'.span, edge'.cell)
    IN  s.bResyncNeeded

\* C15: an edge call notifies SYNC_LOST exactly when a resync is requested in
\* it, whether or not the decoder was SYNCED before the edge.
C15_SyncLostIffResync ==
    [][EdgeStep =>
          /\ Has(raised', MSF_EVENT_SYNC_LOST) <=> ResyncRequested
          /\ ResyncRequested => ~bSyncedFlag' /\ ~bHalfSync' /\ nBitNum' = 1]_vars

\* an extra edge inside the first minute marker, before the decoder was ever
\* SYNCED, has notified SYNC_LOST
C15_SyncLostWhileSeeking ==
    /\ Has(raised, MSF_EVENT_SYNC_LOST)
    /\ tx.last = "glitch"
    /\ tx.sec = 0 /\ tx.k = 0 /\ tx.markers = 0

\* the documented ranges of the fields of sMSFDateTime
InRange(dt) ==
    /\ dt.Year \in 0..99 /\ dt.Month \in 1..12 /\ dt.Day \in 1..31
    /\ dt.DOW \in 0..6 /\ dt.Hour \in 0..23 /\ dt.Minute \in 0..59
    /\ dt.DST \in 0..1

\* C16: every date/time the decoder holds as valid, and every one in the
\* client's buffer, has its fields inside the documented ranges.
C16_PublishedInRange ==
    /\ LocalDateTime.bHasValidTime => InRange(LocalDateTime)
    /\ msf_DateTime.bHasValidTime => InRange(msf_DateTime)

\* the frame received with two bit errors has been published as month 13,
\* day 33
C16_Month13Published ==
    /\ tx.frame = TwoBitErrors
    /\ Published(tx.frame)
    /\ msf_DateTime.bHasValidTime
    /\ msf_DateTime.Month = 13 /\ msf_DateTime.Day = 33

\* PrintDateTime has read all six fields
SnapshotComplete == SeenFields = PrintedFields

\* the fields read are those of frame f
SnapshotOf(f) == \A t \in main.seen : t[2] = FieldsOf(f)[t[1]]

\* C17: the six fields PrintDateTime reads are those of one decoded frame
\* whenever no minute marker was completed, hence nothing published, between
\* the first read and the last; a publication in between can leave it with
\* fields of two frames (C17_TornSnapshot).
C17_WholeUnlessPublishedBetween ==
    (SnapshotComplete /\ \A t, u \in main.seen : t[3] = u[3])
        => SnapshotOf(Before) \/ SnapshotOf(After)

\* PrintDateTime has read the hour of 14:59 and the minute of 15:00
C17_TornSnapshot ==
    /\ SnapshotComplete
    /\ \E t \in main.seen : t[1] = "Hour" /\ t[2] = 14
    /\ \E t \in main.seen : t[1] = "Minute" /\ t[2] = 0
    /\ ~SnapshotOf(Before) /\ ~SnapshotOf(After)

\* C18: an edge call entered while not SYNCED writes no bit of A or B, leaves
\* the cursor alone and does not run DecodeFrame; after every edge call, not
\* SYNCED implies cursor = 1; the decoder leaves not SYNCED only at a
\* CARRIER_OFF edge that ends a 500 ms ON span with half-sync set.
C18_NothingWrittenWhileSeeking ==
    [][EdgeStep =>
          /\ ~bSyncedFlag =>
                 wrote' = {} /\ nBitNum' = nBitNum /\ ~decodeRan'
                 /\ A_bits' = A_bits /\ B_bits' = B_bits
                 /\ LocalDateTime' = LocalDateTime /\ msf_DateTime' = msf_DateTime
          /\ ~bSyncedFlag' => nBitNum' = 1
          /\ (~bSyncedFlag /\ bSyncedFlag') =>
                 /\ edge'.level = CARRIER_OFF /\ edge'.span = eWidth_500
                 /\ bHalfSync]_vars

\* after a resync in a disturbed run, a CARRIER_OFF edge ending a 900 ms ON
\* span was handled while not SYNCED
C18_CellEdgeWhileSeeking ==
    /\ ~bSyncedFlag
    /\ tx.noise
    /\ tx.last = "tx"
    /\ edge.level = CARRIER_OFF /\ edge.span = eWidth_900
    /\ wrote = {} /\ nBitNum = 1

\* the three edges of a minute marker have just been received, one after the
\* other, with nothing added or lost among them
PreambleReceived ==
    /\ tx.last = "tx"
    /\ tx.sec = 1 /\ tx.k = 0
    /\ hist.run >= 3

\* C19: whatever came before, after the three edges of a clean SYNC preamble
\* (CARRIER_OFF, CARRIER_ON 500 ms later, CARRIER_OFF 500 ms after that) the
\* decoder is SYNCED with the cursor at 1.
C19_PreambleAlwaysSyncs ==
    PreambleReceived => bSyncedFlag /\ nBitNum = 1

\* what holds: the first clean preamble after start-up leaves the decoder
\* SYNCED with the cursor at 1
C19_FirstPreambleSyncs ==
    (PreambleReceived /\ tx.markers = 1) => bSyncedFlag /\ nBitNum = 1

\* the handler's record with no buffer, no listener and no mask registered
\* in place of the actual registrations
Unregistered(s) ==
    [s EXCEPT !.pClientDateTime = NULL,
              !.pfClientEventCallback = NULL,
              !.ui32ClientEventMask = 0]

\* what the edge call of this step leaves when entered with record s
AfterEdge(s) ==
    IF edge'.level = CARRIER_OFF
    THEN ResyncBlock(CarrierOff(s, g_msSysTick', edge'.span, edge'.cell))
    ELSE ResyncBlock(CarrierOn(s, g_msSysTick', edge'.span, edge'.cell))

\* the decoder's own state, in a handler record
CoreOf(s) ==
    <<s.bSyncedFlag, s.bHalfSync, s.nBitNum, s.A_bits, s.B_bits,
      s.LocalDateTime, s.T_LastOnStart, s.T_LastOffStart, s.eLastOnWidth,
      s.eLastOffWidth, s.T_CellStart, s.bResyncNeeded, s.memFault, s.raised,
      s.decodeRan>>

\* the decoder's own state
Core ==
    <<bSyncedFlag, bHalfSync, nBitNum, A_bits, B_bits, LocalDateTime,
      T_LastOnStart, T_LastOffStart, eLastOnWidth, eLastOffWidth, T_CellStart,
      bResyncNeeded, memFault, raised, decodeRan>>

\* C20: whatever buffer, listener and mask are registered, the state an edge
\* call leaves in the sync flag, half-sync flag, cursor, bit arrays, last-good
\* date/time and the rest of the decoder's own state is the state the same
\* call leaves with nothing registered, and no other step changes it; so from
\* the common initial state it evolves identically under any registration.
C20_RegistrationsOnlyObserve ==
    [][/\ EdgeStep => CoreOf(AfterEdge(Unregistered(Cur))) = Core'
       /\ ~EdgeStep => Core' = Core]_vars

\* a frame has been decoded and kept with no buffer and no listener
C20_DecodedWithNothingRegistered ==
    /\ pClientDateTime = NULL
    /\ pfClientEventCallback = NULL
    /\ decodeRan
    /\ Published(tx.frame)
    /\ msf_DateTime = ZeroDateTime
    /\ ~memFault

\* a broadcast edge that ends one of the seconds 1..59, all of whose edges
\* were received and none added, the first of them leaving the decoder SYNCED
CellCompleted ==
    /\ EdgeStep /\ tx'.last = "tx"
    /\ EndsSecond /\ tx.sec \in 1..59
    /\ hist.k0 > 0

\* the cell just completed stored the bit pair of its second at index k and
\* nowhere else, and moved the cursor from k to k + 1
StoredAt(k) ==
    /\ nBitNum' = k + 1
    /\ \A w \in hist.cell \cup wrote' : w[2] = k
    /\ getBit(A_bits', k) = (tx.sec \in tx.frame.A)
    /\ getBit(B_bits', k) = (tx.sec \in tx.frame.B)

\* C21: while SYNCED with the cursor at k, each of the four legal cell shapes,
\* once all its edges are processed, has stored its bit pair at index k, has
\* written no other index and has moved the cursor to exactly k + 1.
C21_CellStoresOnePair ==
    [][CellCompleted => StoredAt(hist.k0)]_vars

\* what holds: the shapes of (0,0), (1,0) and (1,1) do so
C21_TwoEdgeCellStoresOnePair ==
    [][(CellCompleted /\ Len(TxShape) = 2) => StoredAt(hist.k0)]_vars

\* a (0,1) cell received whole while SYNCED has moved the cursor by two and
\* written the index after its own
C21_ZeroOneTookTwo ==
    /\ tx.last = "tx" /\ tx.k = 0 /\ tx.sec = 2
    /\ ~tx.noise
    /\ 1 \in ZeroOne(tx.frame)
    /\ bSyncedFlag /\ nBitNum = 3
    /\ <<"B", 2>> \in wrote

\* the OFF and ON span of the odd second
OddPair == <<tx.odd[1][2], tx.odd[2][2]>>

\* the edge that ends the odd second, which began with the decoder SYNCED
OddCellCompleted ==
    /\ EdgeStep /\ tx'.last = "tx"
    /\ EndsSecond /\ tx.sec = tx.oddSec
    /\ hist.k0 > 0

\* C22: while SYNCED, a cell whose OFF and ON span are valid widths but not
\* one of the legal pairs 100/900, 200/800, 300/700 has requested a resync by
\* its closing CARRIER_OFF edge; a legal pair is accepted, the cursor
\* advancing by one.
C22_IllegalPairResyncs ==
    [][OddCellCompleted =>
          IF OddPair \in LegalPairs
          THEN bSyncedFlag' /\ nBitNum' = hist.k0 + 1
          ELSE ~bSyncedFlag' /\ nBitNum' = 1]_vars

\* what holds: the legal pairs are accepted
C22_LegalPairAccepted ==
    [][(OddCellCompleted /\ OddPair \in LegalPairs) =>
          bSyncedFlag' /\ nBitNum' = hist.k0 + 1]_vars

\* what holds: every pair of these widths is accepted, with the B bit of its
\* ON span
C22_EveryPairAccepted ==
    [][OddCellCompleted =>
          /\ bSyncedFlag /\ bSyncedFlag' /\ nBitNum' = hist.k0 + 1
          /\ getBit(B_bits', hist.k0) = (OddPair[2] = 700)
          /\ ~Has(raised', MSF_EVENT_SYNC_LOST)]_vars

\* a second of 100 ms OFF and 800 ms ON has been accepted as (1,0)
C22_Accepted100And800 ==
    /\ tx.last = "tx" /\ tx.k = 0 /\ tx.sec = tx.oddSec + 1
    /\ OddPair = <<100, 800>>
    /\ bSyncedFlag /\ nBitNum = tx.sec
    /\ getBit(A_bits, tx.oddSec) /\ ~getBit(B_bits, tx.oddSec)

\* C23: every setBit call of the edge handler has a bit index in 1..59, and
\* none writes outside the 8-byte arrays.
C23_SetBitWithinFrame ==
    /\ \A w \in wrote : w[2] \in 1..59
    /\ ~memFault

\* what holds: a frame without a (0, 1) second, received without noise and
\* closed by its minute marker, is written to the indices 1..59 only
C23_PlainFrameWithinFrame ==
    (ZeroOne(tx.frame) = {} /\ tx.oddSec # 0) => C23_SetBitWithinFrame

\* 64 plain seconds received in a row after one minute marker, none of them
\* a (0, 1) second, have made the handler call setBit with index 64
C23_WroteOutsideArrayAfter64Cells ==
    /\ memFault
    /\ tx.oddSec = 0
    /\ ZeroOne(tx.frame) = {}
    /\ \E w \in wrote : w[2] = 64

\* the frame with DUT1 = +0.5 s, received without noise, has made the handler
\* call setBit with index 64, outside the arrays
C23_WroteOutsideArray ==
    /\ memFault
    /\ tx.frame = FrameOf(Canonical, 1..5)
    /\ \E w \in wrote : w[2] = 64

\* the event sequences of one edge call that keep the order SYNC, then one of
\* DATETIME_UPDATED and SYNC_LOST
EventOrders ==
    { <<>>,
      <<MSF_EVENT_SYNC>>,
      <<MSF_EVENT_DATETIME_UPDATED>>,
      <<MSF_EVENT_SYNC_LOST>>,
      <<MSF_EVENT_SYNC, MSF_EVENT_DATETIME_UPDATED>>,
      <<MSF_EVENT_SYNC, MSF_EVENT_SYNC_LOST>> }

\* C24: the events one edge call raises, and those it delivers, are SYNC
\* first if at all, then at most one of DATETIME_UPDATED and SYNC_LOST, each
\* at most once; a call that tried a decode raises SYNC and then
\* DATETIME_UPDATED if the stored frame is valid, SYNC_LOST if it is not.
C24_EventOrder ==
    [][EdgeStep =>
          /\ raised' \in EventOrders
          /\ delivered' \in EventOrders
          /\ decodeRan' =>
                raised' = <<MSF_EVENT_SYNC,
                            IF ValidateBCD(A_bits', B_bits')
                            THEN MSF_EVENT_DATETIME_UPDATED
                            ELSE MSF_EVENT_SYNC_LOST>>]_vars

\* an edge call has delivered SYNC and then SYNC_LOST for a frame that
\* failed validation
C24_SyncThenSyncLost ==
    /\ decodeRan
    /\ delivered = <<MSF_EVENT_SYNC, MSF_EVENT_SYNC_LOST>>

\* an edge call has delivered SYNC and then DATETIME_UPDATED
C24_SyncThenUpdated ==
    /\ decodeRan
    /\ delivered = <<MSF_EVENT_SYNC, MSF_EVENT_DATETIME_UPDATED>>

\* C25: a listener call with DATETIME_UPDATED finds, in a registered buffer,
\* the seven fields decoded from the frame just stored, with bHasValidTime
\* and bDateTimeUpdated both true.
C25_PublishedBeforeNotified ==
    [][(EdgeStep /\ pClientDateTime # NULL) =>
          \A i \in 1..Len(delivered') :
             delivered'[i] = MSF_EVENT_DATETIME_UPDATED =>
                /\ heard'[i] = Extracted(A_bits', B_bits')
                /\ heard'[i].bHasValidTime
                /\ heard'[i].bDateTimeUpdated]_vars

\* the listener has been called with DATETIME_UPDATED and found a decoded
\* date and time in the buffer that was empty before the call
C25_ListenerFoundDateTime ==
    /\ pClientDateTime # NULL
    /\ nDelivered = 1
    /\ \E i \in 1..Len(delivered) :
          /\ delivered[i] = MSF_EVENT_DATETIME_UPDATED
          /\ \A f \in DOMAIN Canonical : heard[i][f] = Canonical[f]

\* the fields PrintDateTime has read are those the buffer holds
SeenIsBuffer == \A t \in main.seen : t[2] = msf_DateTime[t[1]]

\* C26: the loop clears bDateTimeUpdated only for a date and time it has
\* read: at the clear, the fields PrintDateTime read are those in the buffer.
C26_ClearOnlyWhatWasRead == [][MainClear => SeenIsBuffer]_vars

\* what holds: a clear with nothing published since PrintDateTime's first
\* read erases the mark of the date and time that was read
C26_ClearAfterQuietRead ==
    [][(MainClear /\ \A t \in main.seen : t[3] = tx.markers)
          => SeenIsBuffer]_vars

\* the broadcast is over, the buffer holds 15:00 with its updated mark
\* cleared, and the loop, back at its poll, has printed 14:59 only
C26_PublicationLost ==
    /\ TxDone
    /\ main.pc = "poll"
    /\ msf_DateTime.bHasValidTime /\ ~msf_DateTime.bDateTimeUpdated
    /\ msf_DateTime.Hour = 15 /\ msf_DateTime.Minute = 0
    /\ SnapshotComplete /\ SnapshotOf(Before)

\* the step is an edge call in which DecodeFrame found the stored frame valid
ValidDecode == EdgeStep /\ decodeRan' /\ ValidateBCD(A_bits', B_bits')

\* the step is a call of MSF_InitDecoder with a buffer
InitWithBuffer == MSF_InitDecoder("msf_DateTime")

\* C27 as stated: every step but a valid decode leaves the date and time,
\* held internally and in the buffer, as it was, bHasValidTime included.
C27_ChangedOnlyByValidDecode ==
    [][~ValidDecode =>
          /\ LocalDateTime' = LocalDateTime
          /\ msf_DateTime' = msf_DateTime]_vars

\* C27, amended: every edge call but a valid decode leaves the date and
\* time, held internally and in the buffer, as it was; internally
\* bHasValidTime never returns to false; MSF_InitDecoder with a buffer zeroes
\* the buffer and leaves the internal copy alone.
C27_KeptByEdgeCalls ==
    [][/\ LocalDateTime.bHasValidTime => LocalDateTime'.bHasValidTime
       /\ ~ValidDecode => LocalDateTime' = LocalDateTime
       /\ (EdgeStep /\ ~ValidDecode) => msf_DateTime' = msf_DateTime
       /\ ~EdgeStep =>
             msf_DateTime' = IF InitWithBuffer THEN ZeroDateTime
                             ELSE msf_DateTime]_vars

\* after a valid decode the channel has disturbed the next minute, sync has
\* been lost, and the date and time is still held in both places
C27_KeptThroughSyncLoss ==
    /\ tx.noise
    /\ Has(raised, MSF_EVENT_SYNC_LOST) /\ ~bSyncedFlag
    /\ LocalDateTime.bHasValidTime
    /\ \A f \in DOMAIN Canonical : LocalDateTime[f] = Canonical[f]
    /\ msf_DateTime = LocalDateTime

\* a + b (mod 2^32)
Plus32(a, b) ==
    LET lo == a[2] + b[2]
    IN  <<(a[1] + b[1] + (lo \div Half)) % Half, lo % Half>>

\* half the range of the tick counter
HalfRange == U32(Half \div 2, 0)

\* handler record s with every saved tick value moved on by d
Later(s, d) ==
    [s EXCEPT !.T_LastOnStart = Plus32(@, d),
              !.T_LastOffStart = Plus32(@, d),
              !.T_CellStart = Plus32(@, d)]

\* the records an edge call entered with record s at time event_time can
\* leave
EdgeOutcomes(s, event_level, event_time) ==
    IF event_level = CARRIER_OFF
    THEN {ResyncBlock(CarrierOff(s, event_time, w, wCell)) :
             w \in GetWidth(Sub32(event_time, s.T_LastOnStart)),
             wCell \in GetWidth(Sub32(event_time,
                         IF s.bSyncedFlag THEN s.T_CellStart ELSE event_time))}
    ELSE {ResyncBlock(CarrierOn(s, event_time, wOff, wCell)) :
             wOff \in GetWidth(Sub32(event_time, s.T_LastOffStart)),
             wCell \in GetWidth(Sub32(event_time, s.T_CellStart))}

\* C28: an edge call leaves what the same call leaves when every tick
\* value, saved and current, is moved on by half the counter's range, where
\* no wrap lies between the edges; so the pair of edges around the wrap is
\* classified, and the state machine driven, as without a wrap.
C28_WrapInvisible ==
    [][EdgeStep =>
          /\ Core' \in {CoreOf(r) :
                          r \in EdgeOutcomes(Cur, edge'.level, g_msSysTick')}
          /\ {CoreOf(Later(r, HalfRange)) :
                 r \in EdgeOutcomes(Cur, edge'.level, g_msSysTick')}
             = {CoreOf(r) :
                 r \in EdgeOutcomes(Later(Cur, HalfRange), edge'.level,
                                    Plus32(g_msSysTick', HalfRange))}]_vars

\* the minute in which the counter wrapped is decoded: every cell is
\* received without a resync and the frame sent is the date and time held
C28_DecodedAcrossWrap ==
    (TxDone /\ ZeroOne(tx.frame) = {}) =>
        /\ g_msSysTick[1] = 0
        /\ msSinceLost = 61000
        /\ LocalDateTime.bHasValidTime
        /\ \A f \in DOMAIN Canonical : LocalDateTime[f] = Canonical[f]

\* the edge that starts second 31, 750 ms after the wrap, has stored the
\* bits of second 30, whose CARRIER_ON edge was seen before the wrap
C28_CellAcrossWrap ==
    /\ tx.sec = 31 /\ tx.k = 0
    /\ g_msSysTick = U32(0, 750)
    /\ edge.span # eWidth_INVALID
    /\ bSyncedFlag /\ nBitNum = 31
    /\ wrote # {}

\* C29: once MSF_InitDecoder(NULL) has been called, and until the next
\* MSF_InitDecoder call, the decoder has no registered buffer, and an edge
\* call of a decoder with no registered buffer leaves the caller's memory
\* alone.
C29_InitNullUnregisters ==
    [][/\ lastInit'.pdata = NULL => pClientDateTime' = NULL
       /\ (EdgeStep /\ pClientDateTime = NULL)
             => msf_DateTime' = msf_DateTime]_vars

\* what holds: MSF_InitDecoder(NULL) leaves the registration and the buffer
\* as they were, and an edge call of a decoder with no registered buffer
\* leaves the caller's memory alone
C29_InitNullKeepsRegistration ==
    [][/\ (lastInit' # lastInit /\ lastInit'.pdata = NULL) =>
             /\ pClientDateTime' = pClientDateTime
             /\ msf_DateTime' = msf_DateTime
       /\ (EdgeStep /\ pClientDateTime = NULL)
             => msf_DateTime' = msf_DateTime]_vars

\* the most recent MSF_InitDecoder call was MSF_InitDecoder(NULL), made
\* during the minute, and the decode at the end of the minute has written
\* the date and time to the buffer registered before
C29_WrittenAfterInitNull ==
    /\ lastInit.pdata = NULL /\ lastInit.at = 1
    /\ TxDone /\ decodeRan
    /\ msf_DateTime.bHasValidTime /\ msf_DateTime.bDateTimeUpdated
    /\ \A f \in DOMAIN Canonical : msf_DateTime[f] = Canonical[f]

\* the bytes in the transmit buffer, oldest first
RECURSIVE PendingFrom(_, _)
PendingFrom(i, n) ==
    IF n = 0 THEN <<>>
    ELSE <<con.TxBuffer[i]>> \o PendingFrom((i + 1) % TxBufferSize, n - 1)

Pending == PendingFrom(con.TxReadIndex, Console_TxBufferCount(con))

\* C30: the bytes the writers stored and reported are, in order, the bytes
\* handed to the UART followed by the bytes still in the buffer: none lost,
\* none handed over twice.
C30_AcceptedSentOrPending == con.accepted = con.uart \o Pending

\* what holds: while fewer than TxBufferSize bytes have been stored and not
\* yet handed to the UART, none is lost
C30_KeptWhileBelowSize ==
    (Len(con.accepted) - Len(con.uart) < TxBufferSize)
        => C30_AcceptedSentOrPending

\* TxBufferSize bytes have been stored and reported, none has been handed to
\* the UART, and the buffer count is 0
C30_FullBufferReadsEmpty ==
    /\ Len(con.accepted) = TxBufferSize
    /\ con.uart = <<>>
    /\ Console_TxBufferCount(con) = 0

\* the characters in the receive buffer, oldest first
RECURSIVE UnreadFrom(_, _)
UnreadFrom(i, n) ==
    IF n = 0 THEN <<>>
    ELSE <<con.RxBuffer[i]>> \o UnreadFrom((i + 1) % RxBufferSize, n - 1)

Unread == UnreadFrom(con.RxReadIndex, Console_RxBufferCount(con))

\* C31: the characters the interrupt handler stored are, in order, those
\* Console_getchar has returned followed by those in the buffer, so that
\* none is overwritten before it is read, and Console_RxBufferCount is the
\* number of characters stored and not yet read.
C31_StoredReadOrUnread ==
    /\ con.stored = con.got \o Unread
    /\ Console_RxBufferCount(con) = Len(con.stored) - Len(con.got)

\* what holds: while fewer than RxBufferSize characters are stored and
\* unread, none is lost and the count is right
C31_KeptWhileBelowSize ==
    (Len(con.stored) - Len(con.got) < RxBufferSize) => C31_StoredReadOrUnread

\* RxBufferSize characters have arrived and been stored, none has been
\* read, and Console_RxBufferCount is 0
C31_FullBufferReadsEmpty ==
    /\ Len(con.stored) = RxBufferSize
    /\ con.got = <<>>
    /\ Console_RxBufferCount(con) = 0

\* C32: Console_puts(pstr) queues the characters of pstr, in order, and then
\* the two characters CR (13), LF (10).
C32_PutsAddsCRLF ==
    [][\A pstr \in Strings : \A space \in 0..TxBufferSize :
          Console_puts(pstr, space) =>
             con'.accepted = con.accepted \o pstr \o <<13, 10>>]_vars

\* what holds: Console_puts(pstr) queues the characters of pstr, in order,
\* and then the one character LF (10)
C32_PutsAddsLF ==
    [][\A pstr \in Strings : \A space \in 0..TxBufferSize :
          Console_puts(pstr, space) =>
             con'.accepted = con.accepted \o pstr \o <<10>>]_vars

\* Console_puts("AB") has queued three characters: A, B and LF
C32_QueuedABThenLF ==
    /\ con.offered = 3
    /\ con.accepted = <<65, 66, 10>>

\* the rules of a frame in the order of the claim: A52 is 0, A53..A58 are 1
\* in ascending order, A59 is 0, then the four parity groups with B54, B55,
\* B56, B57; want is the value a fixed bit must have
RuleTable ==
    << [lo |-> 52, hi |-> 52, parity |-> 0, want |-> FALSE],
       [lo |-> 53, hi |-> 53, parity |-> 0, want |-> TRUE],
       [lo |-> 54, hi |-> 54, parity |-> 0, want |-> TRUE],
       [lo |-> 55, hi |-> 55, parity |-> 0, want |-> TRUE],
       [lo |-> 56, hi |-> 56, parity |-> 0, want |-> TRUE],
       [lo |-> 57, hi |-> 57, parity |-> 0, want |-> TRUE],
       [lo |-> 58, hi |-> 58, parity |-> 0, want |-> TRUE],
       [lo |-> 59, hi |-> 59, parity |-> 0, want |-> FALSE],
       [lo |-> 17, hi |-> 24, parity |-> 54, want |-> TRUE],
       [lo |-> 25, hi |-> 35, parity |-> 55, want |-> TRUE],
       [lo |-> 36, hi |-> 38, parity |-> 56, want |-> TRUE],
       [lo |-> 39, hi |-> 51, parity |-> 57, want |-> TRUE] >>

\* frame f breaks rule r
Breaks(f, r) ==
    IF r.parity = 0 THEN (r.lo \in f.A) # r.want
    ELSE ~Odd((f.A \cap (r.lo..r.hi)) \cup (f.B \cap {r.parity}))

\* what the first rule that f breaks is about; NoLog if it breaks none
FirstBroken(f) ==
    LET broken == {i \in 1..Len(RuleTable) : Breaks(f, RuleTable[i])}
    IN  IF broken = {} THEN NoLog
        ELSE LET i == CHOOSE j \in broken : \A l \in broken : j <= l
             IN  Names(RuleTable[i].lo, RuleTable[i].hi, RuleTable[i].parity)

\* C33: the diagnostic ValidateBCD logs names the first rule, in the order
\* A52, A53..A58, A59, parity with B54, B55, B56, B57, that the frame
\* breaks: its bit, or its bit range and parity bit; it logs none for a
\* frame that breaks no rule.
C33_LogNamesFirstBrokenRule ==
    (ret.done /\ arg.fn = "ValidateBCD log") =>
        ret.val = FirstBroken([A |-> arg.A, B |-> arg.B])

\* what holds: the A bits named are those of the first rule broken, and so
\* is the parity bit unless that rule is the one for A36..A38
C33_LogNamesFirstBrokenBits ==
    (ret.done /\ arg.fn = "ValidateBCD log") =>
        LET first == FirstBroken([A |-> arg.A, B |-> arg.B])
        IN  /\ ret.val.lo = first.lo /\ ret.val.hi = first.hi
            /\ first.lo # 36 => ret.val.parity = first.parity

\* a frame with A36 inverted has been rejected by the parity check of
\* A36..A38 with B56, and the diagnostic names B55
C33_DayOfWeekLogNamesB55 ==
    /\ ret.done /\ arg.fn = "ValidateBCD log"
    /\ arg.flips = {36}
    /\ ret.val = Names(36, 38, 55)

\* the bits 0..63 set in a byte array
BitsSet(bitarray) == {j \in 0..63 : getBit(bitarray, j)}

\* C34: after setBit(array, i, v) with i in 1..59, getBit(array, i) returns
\* v, every other bit of that array, of the 64 it holds, is as it was, and
\* the other array is as it was.
C34_SetThenGet ==
    (ret.done /\ arg.fn = "setBit") =>
        LET was    == IF arg.arr = "A" THEN arg.A ELSE arg.B
            now    == IF arg.arr = "A" THEN A_bits ELSE B_bits
            other  == IF arg.arr = "A" THEN B_bits ELSE A_bits
            otherS == IF arg.arr = "A" THEN arg.B ELSE arg.A
        IN  /\ ret.val = arg.bSet
            /\ BitsSet(now) \ {arg.bitnum} = was \ {arg.bitnum}
            /\ (arg.bitnum \in BitsSet(now)) = arg.bSet
            /\ other = BitsOf(otherS)

\* bit 36 of a full A array has been cleared and read back as 0, with the
\* 58 other bits of A and the 59 bits of B still set
C34_ClearedOneOfMany ==
    /\ ret.done /\ arg.fn = "setBit"
    /\ arg.arr = "A" /\ arg.bitnum = 36 /\ ~arg.bSet
    /\ arg.A = 1..59 /\ arg.B = 1..59
    /\ ret.val = FALSE
    /\ BitsSet(A_bits) = (1..59) \ {36}
    /\ BitsSet(B_bits) = 1..59

====
